---- MODULE Spec2Model ----
(***************************************************************************)
(* Model of the record-mapping engine of assessment-january-2026:          *)
(* the POST /execute/config handler of src/api/server.js (closed catalog   *)
(* of repositories, sourceFile payload), with its source parser, its       *)
(* configuration validation, its transform switch and its record loop.     *)
(*                                                                         *)
(* Strings that the code inspects character by character (source text,     *)
(* cell and field values, record ids) are sequences of one-character       *)
(* strings.  Names that the code only compares, uses as object keys or     *)
(* interpolates into messages (field names, repository names, enum         *)
(* members) are TLA+ strings.                                              *)
(***************************************************************************)
EXTENDS Integers, Sequences, FiniteSets, TLC

(***************************************************************************)
(* Bounds of the model.                                                    *)
(***************************************************************************)
MaxRecords == 2
MaxMappings == 2
MaxCalls == 2
MaxTime == 1

(***************************************************************************)
(* State of the server and of the running /execute/config handler.         *)
(***************************************************************************)
VARIABLES
    pc,             \* position of the handler: idle, request, coverage, import, done
    req,            \* req.body
    validConfig,    \* parseResult.data
    sourceRecords,  \* the parsed source sequence
    index,          \* loop index of the record loop
    records,        \* const records = []
    errors,         \* const errors = []
    importedAt,     \* the stamp taken before the loop
    res,            \* the response sent
    now,            \* the clock read by new Date()
    calls,          \* number of times the request under comparison was submitted
    prev,           \* the request under comparison, the response it got before, and
                    \* the request served in between
    registry        \* the object bound to REPOSITORY_SCHEMA, as the requests served left it

vars == <<pc, req, validConfig, sourceRecords, index, records, errors, importedAt,
          res, now, calls, prev, registry>>

(***************************************************************************)
(* Characters.  A character is one UTF-16 code unit.  The printable ASCII  *)
(* characters but the grave accent, and \t \n \f \r, are one-character     *)
(* strings; every other code unit is held by its escape \uXXXX with four   *)
(* lower-case hex digits, for example "\\u00e9" for U+00E9 and the two     *)
(* code units "\\ud801", "\\udc28" for U+10428.                            *)
(***************************************************************************)
Digits == <<"0","1","2","3","4","5","6","7","8","9">>
HexDigits == Digits \o <<"a","b","c","d","e","f">>
Printable ==
    <<" ","!","\"","#","$","%","&","'","(",")","*","+",",","-",".","/",
      "0","1","2","3","4","5","6","7","8","9",":",";","<","=",">","?",
      "@","A","B","C","D","E","F","G","H","I","J","K","L","M","N","O",
      "P","Q","R","S","T","U","V","W","X","Y","Z","[","\\","]","^","_",
      "\\u0060","a","b","c","d","e","f","g","h","i","j","k","l","m","n","o",
      "p","q","r","s","t","u","v","w","x","y","z","{","|","}","~">>

IndexOf(c, seq) ==
    IF \E k \in 1..Len(seq) : seq[k] = c
    THEN CHOOSE k \in 1..Len(seq) : seq[k] = c
    ELSE 0

\* The value of a hexadecimal digit in either case, -1 for another character
hexValue(c) ==
    CASE IndexOf(c, HexDigits) > 0 -> IndexOf(c, HexDigits) - 1
      [] IndexOf(c, <<"A","B","C","D","E","F">>) > 0 ->
            IndexOf(c, <<"A","B","C","D","E","F">>) + 9
      [] OTHER -> -1

\* String.fromCharCode(n): the character with code unit n
fromCharCode(n) ==
    CASE n >= 32 /\ n <= 126 -> Printable[n - 31]
      [] n = 9 -> "\t"
      [] n = 10 -> "\n"
      [] n = 12 -> "\f"
      [] n = 13 -> "\r"
      [] OTHER -> "\\u" \o HexDigits[(n \div 4096) + 1] \o HexDigits[((n \div 256) % 16) + 1]
                        \o HexDigits[((n \div 16) % 16) + 1] \o HexDigits[(n % 16) + 1]

\* c.charCodeAt(0): the code unit of a character
charCodeAt(c) ==
    CASE Len(c) = 6 -> 4096 * hexValue(SubSeq(c, 3, 3)) + 256 * hexValue(SubSeq(c, 4, 4))
                       + 16 * hexValue(SubSeq(c, 5, 5)) + hexValue(SubSeq(c, 6, 6))
      [] c = "\t" -> 9
      [] c = "\n" -> 10
      [] c = "\f" -> 12
      [] c = "\r" -> 13
      [] OTHER -> IndexOf(c, Printable) + 31

\* White space of String.prototype.trim and of Number(): WhiteSpace and
\* LineTerminator of ECMAScript, that is TAB, VT, FF, SP, NBSP, ZWNBSP, the
\* characters of category Zs, LF, CR, LS and PS
IsSpace(c) ==
    c \in {" ", "\n", "\t", "\r", "\f", "\\u000b", "\\u00a0", "\\ufeff", "\\u2028", "\\u2029",
           "\\u1680", "\\u2000", "\\u2001", "\\u2002", "\\u2003", "\\u2004", "\\u2005",
           "\\u2006", "\\u2007", "\\u2008", "\\u2009", "\\u200a", "\\u202f", "\\u205f",
           "\\u3000"}
IsDigit(c) == IndexOf(c, Digits) > 0

(***************************************************************************)
(* Case conversion of Unicode 17.0, on code points.                        *)
(*   UpperRanges, LowerRanges - the simple mappings of UnicodeData.txt:    *)
(*       <<a, b, step, delta>> maps the code points a, a + step, ..., b    *)
(*       to themselves plus delta                                          *)
(*   UpperSpecial, LowerSpecial - the unconditional mappings of            *)
(*       SpecialCasing.txt, <<code point, its mapping>>                    *)
(*   Cased, CaseIgnorable - the ranges <<a, b>> of the code points that    *)
(*       the Final_Sigma condition looks for (Cased and not                *)
(*       Case_Ignorable) and skips (Case_Ignorable)                        *)
(***************************************************************************)
UpperRanges ==
    <<
      <<97, 122, 1, -32>>, <<181, 181, 1, 743>>, <<224, 246, 1, -32>>, <<248, 254, 1, -32>>,
      <<255, 255, 1, 121>>, <<257, 303, 2, -1>>, <<305, 305, 1, -232>>, <<307, 311, 2, -1>>,
      <<314, 328, 2, -1>>, <<331, 375, 2, -1>>, <<378, 382, 2, -1>>, <<383, 383, 1, -300>>,
      <<384, 384, 1, 195>>, <<387, 389, 2, -1>>, <<392, 392, 1, -1>>, <<396, 396, 1, -1>>,
      <<402, 402, 1, -1>>, <<405, 405, 1, 97>>, <<409, 409, 1, -1>>, <<410, 410, 1, 163>>,
      <<411, 411, 1, 42561>>, <<414, 414, 1, 130>>, <<417, 421, 2, -1>>, <<424, 424, 1, -1>>,
      <<429, 429, 1, -1>>, <<432, 432, 1, -1>>, <<436, 438, 2, -1>>, <<441, 441, 1, -1>>, <<445,
      445, 1, -1>>, <<447, 447, 1, 56>>, <<453, 453, 1, -1>>, <<454, 454, 1, -2>>, <<456, 456,
      1, -1>>, <<457, 457, 1, -2>>, <<459, 459, 1, -1>>, <<460, 460, 1, -2>>, <<462, 476, 2,
      -1>>, <<477, 477, 1, -79>>, <<479, 495, 2, -1>>, <<498, 498, 1, -1>>, <<499, 499, 1, -2>>,
      <<501, 501, 1, -1>>, <<505, 543, 2, -1>>, <<547, 563, 2, -1>>, <<572, 572, 1, -1>>, <<575,
      576, 1, 10815>>, <<578, 578, 1, -1>>, <<583, 591, 2, -1>>, <<592, 592, 1, 10783>>, <<593,
      593, 1, 10780>>, <<594, 594, 1, 10782>>, <<595, 595, 1, -210>>, <<596, 596, 1, -206>>,
      <<598, 599, 1, -205>>, <<601, 601, 1, -202>>, <<603, 603, 1, -203>>, <<604, 604, 1,
      42319>>, <<608, 608, 1, -205>>, <<609, 609, 1, 42315>>, <<611, 611, 1, -207>>, <<612, 612,
      1, 42343>>, <<613, 613, 1, 42280>>, <<614, 614, 1, 42308>>, <<616, 616, 1, -209>>, <<617,
      617, 1, -211>>, <<618, 618, 1, 42308>>, <<619, 619, 1, 10743>>, <<620, 620, 1, 42305>>,
      <<623, 623, 1, -211>>, <<625, 625, 1, 10749>>, <<626, 626, 1, -213>>, <<629, 629, 1,
      -214>>, <<637, 637, 1, 10727>>, <<640, 640, 1, -218>>, <<642, 642, 1, 42307>>, <<643, 643,
      1, -218>>, <<647, 647, 1, 42282>>, <<648, 648, 1, -218>>, <<649, 649, 1, -69>>, <<650,
      651, 1, -217>>, <<652, 652, 1, -71>>, <<658, 658, 1, -219>>, <<669, 669, 1, 42261>>,
      <<670, 670, 1, 42258>>, <<837, 837, 1, 84>>, <<881, 883, 2, -1>>, <<887, 887, 1, -1>>,
      <<891, 893, 1, 130>>, <<940, 940, 1, -38>>, <<941, 943, 1, -37>>, <<945, 961, 1, -32>>,
      <<962, 962, 1, -31>>, <<963, 971, 1, -32>>, <<972, 972, 1, -64>>, <<973, 974, 1, -63>>,
      <<976, 976, 1, -62>>, <<977, 977, 1, -57>>, <<981, 981, 1, -47>>, <<982, 982, 1, -54>>,
      <<983, 983, 1, -8>>, <<985, 1007, 2, -1>>, <<1008, 1008, 1, -86>>, <<1009, 1009, 1, -80>>,
      <<1010, 1010, 1, 7>>, <<1011, 1011, 1, -116>>, <<1013, 1013, 1, -96>>, <<1016, 1016, 1,
      -1>>, <<1019, 1019, 1, -1>>, <<1072, 1103, 1, -32>>, <<1104, 1119, 1, -80>>, <<1121, 1153,
      2, -1>>, <<1163, 1215, 2, -1>>, <<1218, 1230, 2, -1>>, <<1231, 1231, 1, -15>>, <<1233,
      1327, 2, -1>>, <<1377, 1414, 1, -48>>, <<4304, 4346, 1, 3008>>, <<4349, 4351, 1, 3008>>,
      <<5112, 5117, 1, -8>>, <<7296, 7296, 1, -6254>>, <<7297, 7297, 1, -6253>>, <<7298, 7298,
      1, -6244>>, <<7299, 7300, 1, -6242>>, <<7301, 7301, 1, -6243>>, <<7302, 7302, 1, -6236>>,
      <<7303, 7303, 1, -6181>>, <<7304, 7304, 1, 35266>>, <<7306, 7306, 1, -1>>, <<7545, 7545,
      1, 35332>>, <<7549, 7549, 1, 3814>>, <<7566, 7566, 1, 35384>>, <<7681, 7829, 2, -1>>,
      <<7835, 7835, 1, -59>>, <<7841, 7935, 2, -1>>, <<7936, 7943, 1, 8>>, <<7952, 7957, 1, 8>>,
      <<7968, 7975, 1, 8>>, <<7984, 7991, 1, 8>>, <<8000, 8005, 1, 8>>, <<8017, 8023, 2, 8>>,
      <<8032, 8039, 1, 8>>, <<8048, 8049, 1, 74>>, <<8050, 8053, 1, 86>>, <<8054, 8055, 1,
      100>>, <<8056, 8057, 1, 128>>, <<8058, 8059, 1, 112>>, <<8060, 8061, 1, 126>>, <<8112,
      8113, 1, 8>>, <<8126, 8126, 1, -7205>>, <<8144, 8145, 1, 8>>, <<8160, 8161, 1, 8>>,
      <<8165, 8165, 1, 7>>, <<8526, 8526, 1, -28>>, <<8560, 8575, 1, -16>>, <<8580, 8580, 1,
      -1>>, <<9424, 9449, 1, -26>>, <<11312, 11359, 1, -48>>, <<11361, 11361, 1, -1>>, <<11365,
      11365, 1, -10795>>, <<11366, 11366, 1, -10792>>, <<11368, 11372, 2, -1>>, <<11379, 11379,
      1, -1>>, <<11382, 11382, 1, -1>>, <<11393, 11491, 2, -1>>, <<11500, 11502, 2, -1>>,
      <<11507, 11507, 1, -1>>, <<11520, 11557, 1, -7264>>, <<11559, 11559, 1, -7264>>, <<11565,
      11565, 1, -7264>>, <<42561, 42605, 2, -1>>, <<42625, 42651, 2, -1>>, <<42787, 42799, 2,
      -1>>, <<42803, 42863, 2, -1>>, <<42874, 42876, 2, -1>>, <<42879, 42887, 2, -1>>, <<42892,
      42892, 1, -1>>, <<42897, 42899, 2, -1>>, <<42900, 42900, 1, 48>>, <<42903, 42921, 2, -1>>,
      <<42933, 42947, 2, -1>>, <<42952, 42954, 2, -1>>, <<42957, 42971, 2, -1>>, <<42998, 42998,
      1, -1>>, <<43859, 43859, 1, -928>>, <<43888, 43967, 1, -38864>>, <<65345, 65370, 1, -32>>,
      <<66600, 66639, 1, -40>>, <<66776, 66811, 1, -40>>, <<66967, 67003, 2, -39>>, <<66968,
      66976, 2, -39>>, <<66980, 66992, 2, -39>>, <<66996, 67000, 2, -39>>, <<67004, 67004, 1,
      -39>>, <<68800, 68850, 1, -64>>, <<68976, 68997, 1, -32>>, <<71872, 71903, 1, -32>>,
      <<93792, 93823, 1, -32>>, <<93883, 93907, 1, -27>>, <<125218, 125251, 1, -34>>
    >>
UpperSpecial ==
    <<
      <<223, <<83, 83>>>>, <<329, <<700, 78>>>>, <<496, <<74, 780>>>>, <<912, <<921, 776,
      769>>>>, <<944, <<933, 776, 769>>>>, <<1415, <<1333, 1362>>>>, <<7830, <<72, 817>>>>,
      <<7831, <<84, 776>>>>, <<7832, <<87, 778>>>>, <<7833, <<89, 778>>>>, <<7834, <<65,
      702>>>>, <<8016, <<933, 787>>>>, <<8018, <<933, 787, 768>>>>, <<8020, <<933, 787, 769>>>>,
      <<8022, <<933, 787, 834>>>>, <<8064, <<7944, 921>>>>, <<8065, <<7945, 921>>>>, <<8066,
      <<7946, 921>>>>, <<8067, <<7947, 921>>>>, <<8068, <<7948, 921>>>>, <<8069, <<7949,
      921>>>>, <<8070, <<7950, 921>>>>, <<8071, <<7951, 921>>>>, <<8072, <<7944, 921>>>>,
      <<8073, <<7945, 921>>>>, <<8074, <<7946, 921>>>>, <<8075, <<7947, 921>>>>, <<8076, <<7948,
      921>>>>, <<8077, <<7949, 921>>>>, <<8078, <<7950, 921>>>>, <<8079, <<7951, 921>>>>,
      <<8080, <<7976, 921>>>>, <<8081, <<7977, 921>>>>, <<8082, <<7978, 921>>>>, <<8083, <<7979,
      921>>>>, <<8084, <<7980, 921>>>>, <<8085, <<7981, 921>>>>, <<8086, <<7982, 921>>>>,
      <<8087, <<7983, 921>>>>, <<8088, <<7976, 921>>>>, <<8089, <<7977, 921>>>>, <<8090, <<7978,
      921>>>>, <<8091, <<7979, 921>>>>, <<8092, <<7980, 921>>>>, <<8093, <<7981, 921>>>>,
      <<8094, <<7982, 921>>>>, <<8095, <<7983, 921>>>>, <<8096, <<8040, 921>>>>, <<8097, <<8041,
      921>>>>, <<8098, <<8042, 921>>>>, <<8099, <<8043, 921>>>>, <<8100, <<8044, 921>>>>,
      <<8101, <<8045, 921>>>>, <<8102, <<8046, 921>>>>, <<8103, <<8047, 921>>>>, <<8104, <<8040,
      921>>>>, <<8105, <<8041, 921>>>>, <<8106, <<8042, 921>>>>, <<8107, <<8043, 921>>>>,
      <<8108, <<8044, 921>>>>, <<8109, <<8045, 921>>>>, <<8110, <<8046, 921>>>>, <<8111, <<8047,
      921>>>>, <<8114, <<8122, 921>>>>, <<8115, <<913, 921>>>>, <<8116, <<902, 921>>>>, <<8118,
      <<913, 834>>>>, <<8119, <<913, 834, 921>>>>, <<8124, <<913, 921>>>>, <<8130, <<8138,
      921>>>>, <<8131, <<919, 921>>>>, <<8132, <<905, 921>>>>, <<8134, <<919, 834>>>>, <<8135,
      <<919, 834, 921>>>>, <<8140, <<919, 921>>>>, <<8146, <<921, 776, 768>>>>, <<8147, <<921,
      776, 769>>>>, <<8150, <<921, 834>>>>, <<8151, <<921, 776, 834>>>>, <<8162, <<933, 776,
      768>>>>, <<8163, <<933, 776, 769>>>>, <<8164, <<929, 787>>>>, <<8166, <<933, 834>>>>,
      <<8167, <<933, 776, 834>>>>, <<8178, <<8186, 921>>>>, <<8179, <<937, 921>>>>, <<8180,
      <<911, 921>>>>, <<8182, <<937, 834>>>>, <<8183, <<937, 834, 921>>>>, <<8188, <<937,
      921>>>>, <<64256, <<70, 70>>>>, <<64257, <<70, 73>>>>, <<64258, <<70, 76>>>>, <<64259,
      <<70, 70, 73>>>>, <<64260, <<70, 70, 76>>>>, <<64261, <<83, 84>>>>, <<64262, <<83, 84>>>>,
      <<64275, <<1348, 1350>>>>, <<64276, <<1348, 1333>>>>, <<64277, <<1348, 1339>>>>, <<64278,
      <<1358, 1350>>>>, <<64279, <<1348, 1341>>>>
    >>
LowerRanges ==
    <<
      <<65, 90, 1, 32>>, <<192, 214, 1, 32>>, <<216, 222, 1, 32>>, <<256, 302, 2, 1>>, <<306,
      310, 2, 1>>, <<313, 327, 2, 1>>, <<330, 374, 2, 1>>, <<376, 376, 1, -121>>, <<377, 381, 2,
      1>>, <<385, 385, 1, 210>>, <<386, 388, 2, 1>>, <<390, 390, 1, 206>>, <<391, 391, 1, 1>>,
      <<393, 394, 1, 205>>, <<395, 395, 1, 1>>, <<398, 398, 1, 79>>, <<399, 399, 1, 202>>,
      <<400, 400, 1, 203>>, <<401, 401, 1, 1>>, <<403, 403, 1, 205>>, <<404, 404, 1, 207>>,
      <<406, 406, 1, 211>>, <<407, 407, 1, 209>>, <<408, 408, 1, 1>>, <<412, 412, 1, 211>>,
      <<413, 413, 1, 213>>, <<415, 415, 1, 214>>, <<416, 420, 2, 1>>, <<422, 422, 1, 218>>,
      <<423, 423, 1, 1>>, <<425, 425, 1, 218>>, <<428, 428, 1, 1>>, <<430, 430, 1, 218>>, <<431,
      431, 1, 1>>, <<433, 434, 1, 217>>, <<435, 437, 2, 1>>, <<439, 439, 1, 219>>, <<440, 440,
      1, 1>>, <<444, 444, 1, 1>>, <<452, 452, 1, 2>>, <<453, 453, 1, 1>>, <<455, 455, 1, 2>>,
      <<456, 456, 1, 1>>, <<458, 458, 1, 2>>, <<459, 475, 2, 1>>, <<478, 494, 2, 1>>, <<497,
      497, 1, 2>>, <<498, 500, 2, 1>>, <<502, 502, 1, -97>>, <<503, 503, 1, -56>>, <<504, 542,
      2, 1>>, <<544, 544, 1, -130>>, <<546, 562, 2, 1>>, <<570, 570, 1, 10795>>, <<571, 571, 1,
      1>>, <<573, 573, 1, -163>>, <<574, 574, 1, 10792>>, <<577, 577, 1, 1>>, <<579, 579, 1,
      -195>>, <<580, 580, 1, 69>>, <<581, 581, 1, 71>>, <<582, 590, 2, 1>>, <<880, 882, 2, 1>>,
      <<886, 886, 1, 1>>, <<895, 895, 1, 116>>, <<902, 902, 1, 38>>, <<904, 906, 1, 37>>, <<908,
      908, 1, 64>>, <<910, 911, 1, 63>>, <<913, 929, 1, 32>>, <<931, 939, 1, 32>>, <<975, 975,
      1, 8>>, <<984, 1006, 2, 1>>, <<1012, 1012, 1, -60>>, <<1015, 1015, 1, 1>>, <<1017, 1017,
      1, -7>>, <<1018, 1018, 1, 1>>, <<1021, 1023, 1, -130>>, <<1024, 1039, 1, 80>>, <<1040,
      1071, 1, 32>>, <<1120, 1152, 2, 1>>, <<1162, 1214, 2, 1>>, <<1216, 1216, 1, 15>>, <<1217,
      1229, 2, 1>>, <<1232, 1326, 2, 1>>, <<1329, 1366, 1, 48>>, <<4256, 4293, 1, 7264>>,
      <<4295, 4295, 1, 7264>>, <<4301, 4301, 1, 7264>>, <<5024, 5103, 1, 38864>>, <<5104, 5109,
      1, 8>>, <<7305, 7305, 1, 1>>, <<7312, 7354, 1, -3008>>, <<7357, 7359, 1, -3008>>, <<7680,
      7828, 2, 1>>, <<7838, 7838, 1, -7615>>, <<7840, 7934, 2, 1>>, <<7944, 7951, 1, -8>>,
      <<7960, 7965, 1, -8>>, <<7976, 7983, 1, -8>>, <<7992, 7999, 1, -8>>, <<8008, 8013, 1,
      -8>>, <<8025, 8031, 2, -8>>, <<8040, 8047, 1, -8>>, <<8072, 8079, 1, -8>>, <<8088, 8095,
      1, -8>>, <<8104, 8111, 1, -8>>, <<8120, 8121, 1, -8>>, <<8122, 8123, 1, -74>>, <<8124,
      8124, 1, -9>>, <<8136, 8139, 1, -86>>, <<8140, 8140, 1, -9>>, <<8152, 8153, 1, -8>>,
      <<8154, 8155, 1, -100>>, <<8168, 8169, 1, -8>>, <<8170, 8171, 1, -112>>, <<8172, 8172, 1,
      -7>>, <<8184, 8185, 1, -128>>, <<8186, 8187, 1, -126>>, <<8188, 8188, 1, -9>>, <<8486,
      8486, 1, -7517>>, <<8490, 8490, 1, -8383>>, <<8491, 8491, 1, -8262>>, <<8498, 8498, 1,
      28>>, <<8544, 8559, 1, 16>>, <<8579, 8579, 1, 1>>, <<9398, 9423, 1, 26>>, <<11264, 11311,
      1, 48>>, <<11360, 11360, 1, 1>>, <<11362, 11362, 1, -10743>>, <<11363, 11363, 1, -3814>>,
      <<11364, 11364, 1, -10727>>, <<11367, 11371, 2, 1>>, <<11373, 11373, 1, -10780>>, <<11374,
      11374, 1, -10749>>, <<11375, 11375, 1, -10783>>, <<11376, 11376, 1, -10782>>, <<11378,
      11378, 1, 1>>, <<11381, 11381, 1, 1>>, <<11390, 11391, 1, -10815>>, <<11392, 11490, 2,
      1>>, <<11499, 11501, 2, 1>>, <<11506, 11506, 1, 1>>, <<42560, 42604, 2, 1>>, <<42624,
      42650, 2, 1>>, <<42786, 42798, 2, 1>>, <<42802, 42862, 2, 1>>, <<42873, 42875, 2, 1>>,
      <<42877, 42877, 1, -35332>>, <<42878, 42886, 2, 1>>, <<42891, 42891, 1, 1>>, <<42893,
      42893, 1, -42280>>, <<42896, 42898, 2, 1>>, <<42902, 42920, 2, 1>>, <<42922, 42922, 1,
      -42308>>, <<42923, 42923, 1, -42319>>, <<42924, 42924, 1, -42315>>, <<42925, 42925, 1,
      -42305>>, <<42926, 42926, 1, -42308>>, <<42928, 42928, 1, -42258>>, <<42929, 42929, 1,
      -42282>>, <<42930, 42930, 1, -42261>>, <<42931, 42931, 1, 928>>, <<42932, 42946, 2, 1>>,
      <<42948, 42948, 1, -48>>, <<42949, 42949, 1, -42307>>, <<42950, 42950, 1, -35384>>,
      <<42951, 42953, 2, 1>>, <<42955, 42955, 1, -42343>>, <<42956, 42970, 2, 1>>, <<42972,
      42972, 1, -42561>>, <<42997, 42997, 1, 1>>, <<65313, 65338, 1, 32>>, <<66560, 66599, 1,
      40>>, <<66736, 66771, 1, 40>>, <<66928, 66964, 2, 39>>, <<66929, 66937, 2, 39>>, <<66941,
      66953, 2, 39>>, <<66957, 66961, 2, 39>>, <<66965, 66965, 1, 39>>, <<68736, 68786, 1, 64>>,
      <<68944, 68965, 1, 32>>, <<71840, 71871, 1, 32>>, <<93760, 93791, 1, 32>>, <<93856, 93880,
      1, 27>>, <<125184, 125217, 1, 34>>
    >>
LowerSpecial ==
    <<
      <<304, <<105, 775>>>>
    >>
Cased ==
    <<
      <<65, 90>>, <<97, 122>>, <<170, 170>>, <<181, 181>>, <<186, 186>>, <<192, 214>>, <<216,
      246>>, <<248, 442>>, <<444, 447>>, <<452, 659>>, <<662, 687>>, <<880, 883>>, <<886, 887>>,
      <<891, 893>>, <<895, 895>>, <<902, 902>>, <<904, 906>>, <<908, 908>>, <<910, 929>>, <<931,
      1013>>, <<1015, 1153>>, <<1162, 1327>>, <<1329, 1366>>, <<1376, 1416>>, <<4256, 4293>>,
      <<4295, 4295>>, <<4301, 4301>>, <<4304, 4346>>, <<4349, 4351>>, <<5024, 5109>>, <<5112,
      5117>>, <<7296, 7306>>, <<7312, 7354>>, <<7357, 7359>>, <<7424, 7467>>, <<7531, 7543>>,
      <<7545, 7578>>, <<7680, 7957>>, <<7960, 7965>>, <<7968, 8005>>, <<8008, 8013>>, <<8016,
      8023>>, <<8025, 8025>>, <<8027, 8027>>, <<8029, 8029>>, <<8031, 8061>>, <<8064, 8116>>,
      <<8118, 8124>>, <<8126, 8126>>, <<8130, 8132>>, <<8134, 8140>>, <<8144, 8147>>, <<8150,
      8155>>, <<8160, 8172>>, <<8178, 8180>>, <<8182, 8188>>, <<8450, 8450>>, <<8455, 8455>>,
      <<8458, 8467>>, <<8469, 8469>>, <<8473, 8477>>, <<8484, 8484>>, <<8486, 8486>>, <<8488,
      8488>>, <<8490, 8493>>, <<8495, 8500>>, <<8505, 8505>>, <<8508, 8511>>, <<8517, 8521>>,
      <<8526, 8526>>, <<8544, 8575>>, <<8579, 8580>>, <<9398, 9449>>, <<11264, 11387>>, <<11390,
      11492>>, <<11499, 11502>>, <<11506, 11507>>, <<11520, 11557>>, <<11559, 11559>>, <<11565,
      11565>>, <<42560, 42605>>, <<42624, 42651>>, <<42786, 42863>>, <<42865, 42887>>, <<42891,
      42894>>, <<42896, 42972>>, <<42997, 42998>>, <<43002, 43002>>, <<43824, 43866>>, <<43872,
      43880>>, <<43888, 43967>>, <<64256, 64262>>, <<64275, 64279>>, <<65313, 65338>>, <<65345,
      65370>>, <<66560, 66639>>, <<66736, 66771>>, <<66776, 66811>>, <<66928, 66938>>, <<66940,
      66954>>, <<66956, 66962>>, <<66964, 66965>>, <<66967, 66977>>, <<66979, 66993>>, <<66995,
      67001>>, <<67003, 67004>>, <<68736, 68786>>, <<68800, 68850>>, <<68944, 68965>>, <<68976,
      68997>>, <<71840, 71903>>, <<93760, 93823>>, <<93856, 93880>>, <<93883, 93907>>, <<119808,
      119892>>, <<119894, 119964>>, <<119966, 119967>>, <<119970, 119970>>, <<119973, 119974>>,
      <<119977, 119980>>, <<119982, 119993>>, <<119995, 119995>>, <<119997, 120003>>, <<120005,
      120069>>, <<120071, 120074>>, <<120077, 120084>>, <<120086, 120092>>, <<120094, 120121>>,
      <<120123, 120126>>, <<120128, 120132>>, <<120134, 120134>>, <<120138, 120144>>, <<120146,
      120485>>, <<120488, 120512>>, <<120514, 120538>>, <<120540, 120570>>, <<120572, 120596>>,
      <<120598, 120628>>, <<120630, 120654>>, <<120656, 120686>>, <<120688, 120712>>, <<120714,
      120744>>, <<120746, 120770>>, <<120772, 120779>>, <<122624, 122633>>, <<122635, 122654>>,
      <<122661, 122666>>, <<125184, 125251>>, <<127280, 127305>>, <<127312, 127337>>, <<127344,
      127369>>
    >>
CaseIgnorable ==
    <<
      <<39, 39>>, <<46, 46>>, <<58, 58>>, <<94, 94>>, <<96, 96>>, <<168, 168>>, <<173, 173>>,
      <<175, 175>>, <<180, 180>>, <<183, 184>>, <<688, 879>>, <<884, 885>>, <<890, 890>>, <<900,
      901>>, <<903, 903>>, <<1155, 1161>>, <<1369, 1369>>, <<1375, 1375>>, <<1425, 1469>>,
      <<1471, 1471>>, <<1473, 1474>>, <<1476, 1477>>, <<1479, 1479>>, <<1524, 1524>>, <<1536,
      1541>>, <<1552, 1562>>, <<1564, 1564>>, <<1600, 1600>>, <<1611, 1631>>, <<1648, 1648>>,
      <<1750, 1757>>, <<1759, 1768>>, <<1770, 1773>>, <<1807, 1807>>, <<1809, 1809>>, <<1840,
      1866>>, <<1958, 1968>>, <<2027, 2037>>, <<2042, 2042>>, <<2045, 2045>>, <<2070, 2093>>,
      <<2137, 2139>>, <<2184, 2184>>, <<2192, 2193>>, <<2199, 2207>>, <<2249, 2306>>, <<2362,
      2362>>, <<2364, 2364>>, <<2369, 2376>>, <<2381, 2381>>, <<2385, 2391>>, <<2402, 2403>>,
      <<2417, 2417>>, <<2433, 2433>>, <<2492, 2492>>, <<2497, 2500>>, <<2509, 2509>>, <<2530,
      2531>>, <<2558, 2558>>, <<2561, 2562>>, <<2620, 2620>>, <<2625, 2626>>, <<2631, 2632>>,
      <<2635, 2637>>, <<2641, 2641>>, <<2672, 2673>>, <<2677, 2677>>, <<2689, 2690>>, <<2748,
      2748>>, <<2753, 2757>>, <<2759, 2760>>, <<2765, 2765>>, <<2786, 2787>>, <<2810, 2815>>,
      <<2817, 2817>>, <<2876, 2876>>, <<2879, 2879>>, <<2881, 2884>>, <<2893, 2893>>, <<2901,
      2902>>, <<2914, 2915>>, <<2946, 2946>>, <<3008, 3008>>, <<3021, 3021>>, <<3072, 3072>>,
      <<3076, 3076>>, <<3132, 3132>>, <<3134, 3136>>, <<3142, 3144>>, <<3146, 3149>>, <<3157,
      3158>>, <<3170, 3171>>, <<3201, 3201>>, <<3260, 3260>>, <<3263, 3263>>, <<3270, 3270>>,
      <<3276, 3277>>, <<3298, 3299>>, <<3328, 3329>>, <<3387, 3388>>, <<3393, 3396>>, <<3405,
      3405>>, <<3426, 3427>>, <<3457, 3457>>, <<3530, 3530>>, <<3538, 3540>>, <<3542, 3542>>,
      <<3633, 3633>>, <<3636, 3642>>, <<3654, 3662>>, <<3761, 3761>>, <<3764, 3772>>, <<3782,
      3782>>, <<3784, 3790>>, <<3864, 3865>>, <<3893, 3893>>, <<3895, 3895>>, <<3897, 3897>>,
      <<3953, 3966>>, <<3968, 3972>>, <<3974, 3975>>, <<3981, 3991>>, <<3993, 4028>>, <<4038,
      4038>>, <<4141, 4144>>, <<4146, 4151>>, <<4153, 4154>>, <<4157, 4158>>, <<4184, 4185>>,
      <<4190, 4192>>, <<4209, 4212>>, <<4226, 4226>>, <<4229, 4230>>, <<4237, 4237>>, <<4253,
      4253>>, <<4348, 4348>>, <<4957, 4959>>, <<5906, 5908>>, <<5938, 5939>>, <<5970, 5971>>,
      <<6002, 6003>>, <<6068, 6069>>, <<6071, 6077>>, <<6086, 6086>>, <<6089, 6099>>, <<6103,
      6103>>, <<6109, 6109>>, <<6155, 6159>>, <<6211, 6211>>, <<6277, 6278>>, <<6313, 6313>>,
      <<6432, 6434>>, <<6439, 6440>>, <<6450, 6450>>, <<6457, 6459>>, <<6679, 6680>>, <<6683,
      6683>>, <<6742, 6742>>, <<6744, 6750>>, <<6752, 6752>>, <<6754, 6754>>, <<6757, 6764>>,
      <<6771, 6780>>, <<6783, 6783>>, <<6823, 6823>>, <<6832, 6877>>, <<6880, 6891>>, <<6912,
      6915>>, <<6964, 6964>>, <<6966, 6970>>, <<6972, 6972>>, <<6978, 6978>>, <<7019, 7027>>,
      <<7040, 7041>>, <<7074, 7077>>, <<7080, 7081>>, <<7083, 7085>>, <<7142, 7142>>, <<7144,
      7145>>, <<7149, 7149>>, <<7151, 7153>>, <<7212, 7219>>, <<7222, 7223>>, <<7288, 7293>>,
      <<7376, 7378>>, <<7380, 7392>>, <<7394, 7400>>, <<7405, 7405>>, <<7412, 7412>>, <<7416,
      7417>>, <<7468, 7530>>, <<7544, 7544>>, <<7579, 7679>>, <<8125, 8125>>, <<8127, 8129>>,
      <<8141, 8143>>, <<8157, 8159>>, <<8173, 8175>>, <<8189, 8190>>, <<8203, 8207>>, <<8216,
      8217>>, <<8228, 8228>>, <<8231, 8231>>, <<8234, 8238>>, <<8288, 8292>>, <<8294, 8303>>,
      <<8305, 8305>>, <<8319, 8319>>, <<8336, 8348>>, <<8400, 8432>>, <<11388, 11389>>, <<11503,
      11505>>, <<11631, 11631>>, <<11647, 11647>>, <<11744, 11775>>, <<11823, 11823>>, <<12293,
      12293>>, <<12330, 12333>>, <<12337, 12341>>, <<12347, 12347>>, <<12441, 12446>>, <<12540,
      12542>>, <<40981, 40981>>, <<42232, 42237>>, <<42508, 42508>>, <<42607, 42610>>, <<42612,
      42621>>, <<42623, 42623>>, <<42652, 42655>>, <<42736, 42737>>, <<42752, 42785>>, <<42864,
      42864>>, <<42888, 42890>>, <<42993, 42996>>, <<43000, 43001>>, <<43010, 43010>>, <<43014,
      43014>>, <<43019, 43019>>, <<43045, 43046>>, <<43052, 43052>>, <<43204, 43205>>, <<43232,
      43249>>, <<43263, 43263>>, <<43302, 43309>>, <<43335, 43345>>, <<43392, 43394>>, <<43443,
      43443>>, <<43446, 43449>>, <<43452, 43453>>, <<43471, 43471>>, <<43493, 43494>>, <<43561,
      43566>>, <<43569, 43570>>, <<43573, 43574>>, <<43587, 43587>>, <<43596, 43596>>, <<43632,
      43632>>, <<43644, 43644>>, <<43696, 43696>>, <<43698, 43700>>, <<43703, 43704>>, <<43710,
      43711>>, <<43713, 43713>>, <<43741, 43741>>, <<43756, 43757>>, <<43763, 43764>>, <<43766,
      43766>>, <<43867, 43871>>, <<43881, 43883>>, <<44005, 44005>>, <<44008, 44008>>, <<44013,
      44013>>, <<64286, 64286>>, <<64434, 64450>>, <<65024, 65039>>, <<65043, 65043>>, <<65056,
      65071>>, <<65106, 65106>>, <<65109, 65109>>, <<65279, 65279>>, <<65287, 65287>>, <<65294,
      65294>>, <<65306, 65306>>, <<65342, 65342>>, <<65344, 65344>>, <<65392, 65392>>, <<65438,
      65439>>, <<65507, 65507>>, <<65529, 65531>>, <<66045, 66045>>, <<66272, 66272>>, <<66422,
      66426>>, <<67456, 67461>>, <<67463, 67504>>, <<67506, 67514>>, <<68097, 68099>>, <<68101,
      68102>>, <<68108, 68111>>, <<68152, 68154>>, <<68159, 68159>>, <<68325, 68326>>, <<68900,
      68903>>, <<68942, 68942>>, <<68969, 68973>>, <<68975, 68975>>, <<69291, 69292>>, <<69317,
      69317>>, <<69370, 69375>>, <<69446, 69456>>, <<69506, 69509>>, <<69633, 69633>>, <<69688,
      69702>>, <<69744, 69744>>, <<69747, 69748>>, <<69759, 69761>>, <<69811, 69814>>, <<69817,
      69818>>, <<69821, 69821>>, <<69826, 69826>>, <<69837, 69837>>, <<69888, 69890>>, <<69927,
      69931>>, <<69933, 69940>>, <<70003, 70003>>, <<70016, 70017>>, <<70070, 70078>>, <<70089,
      70092>>, <<70095, 70095>>, <<70191, 70193>>, <<70196, 70196>>, <<70198, 70199>>, <<70206,
      70206>>, <<70209, 70209>>, <<70367, 70367>>, <<70371, 70378>>, <<70400, 70401>>, <<70459,
      70460>>, <<70464, 70464>>, <<70502, 70508>>, <<70512, 70516>>, <<70587, 70592>>, <<70606,
      70606>>, <<70608, 70608>>, <<70610, 70610>>, <<70625, 70626>>, <<70712, 70719>>, <<70722,
      70724>>, <<70726, 70726>>, <<70750, 70750>>, <<70835, 70840>>, <<70842, 70842>>, <<70847,
      70848>>, <<70850, 70851>>, <<71090, 71093>>, <<71100, 71101>>, <<71103, 71104>>, <<71132,
      71133>>, <<71219, 71226>>, <<71229, 71229>>, <<71231, 71232>>, <<71339, 71339>>, <<71341,
      71341>>, <<71344, 71349>>, <<71351, 71351>>, <<71453, 71453>>, <<71455, 71455>>, <<71458,
      71461>>, <<71463, 71467>>, <<71727, 71735>>, <<71737, 71738>>, <<71995, 71996>>, <<71998,
      71998>>, <<72003, 72003>>, <<72148, 72151>>, <<72154, 72155>>, <<72160, 72160>>, <<72193,
      72202>>, <<72243, 72248>>, <<72251, 72254>>, <<72263, 72263>>, <<72273, 72278>>, <<72281,
      72283>>, <<72330, 72342>>, <<72344, 72345>>, <<72544, 72544>>, <<72546, 72548>>, <<72550,
      72550>>, <<72752, 72758>>, <<72760, 72765>>, <<72767, 72767>>, <<72850, 72871>>, <<72874,
      72880>>, <<72882, 72883>>, <<72885, 72886>>, <<73009, 73014>>, <<73018, 73018>>, <<73020,
      73021>>, <<73023, 73029>>, <<73031, 73031>>, <<73104, 73105>>, <<73109, 73109>>, <<73111,
      73111>>, <<73177, 73177>>, <<73459, 73460>>, <<73472, 73473>>, <<73526, 73530>>, <<73536,
      73536>>, <<73538, 73538>>, <<73562, 73562>>, <<78896, 78912>>, <<78919, 78933>>, <<90398,
      90409>>, <<90413, 90415>>, <<92912, 92916>>, <<92976, 92982>>, <<92992, 92995>>, <<93504,
      93506>>, <<93547, 93548>>, <<94031, 94031>>, <<94095, 94111>>, <<94176, 94177>>, <<94179,
      94180>>, <<94194, 94195>>, <<110576, 110579>>, <<110581, 110587>>, <<110589, 110590>>,
      <<113821, 113822>>, <<113824, 113827>>, <<118528, 118573>>, <<118576, 118598>>, <<119143,
      119145>>, <<119155, 119170>>, <<119173, 119179>>, <<119210, 119213>>, <<119362, 119364>>,
      <<121344, 121398>>, <<121403, 121452>>, <<121461, 121461>>, <<121476, 121476>>, <<121499,
      121503>>, <<121505, 121519>>, <<122880, 122886>>, <<122888, 122904>>, <<122907, 122913>>,
      <<122915, 122916>>, <<122918, 122922>>, <<122928, 122989>>, <<123023, 123023>>, <<123184,
      123197>>, <<123566, 123566>>, <<123628, 123631>>, <<124139, 124143>>, <<124398, 124399>>,
      <<124643, 124643>>, <<124646, 124646>>, <<124654, 124655>>, <<124661, 124661>>, <<124671,
      124671>>, <<125136, 125142>>, <<125252, 125259>>, <<127995, 127999>>, <<917505, 917505>>,
      <<917536, 917631>>, <<917760, 917999>>
    >>
\* The code points of a string from its i-th code unit on: a high surrogate
\* followed by a low surrogate is one code point, any other code unit is a
\* code point by itself
RECURSIVE codePoints(_, _)
codePoints(chars, i) ==
    LET unit(k) == charCodeAt(chars[k])
        paired == /\ i < Len(chars)
                  /\ unit(i) \in 55296..56319
                  /\ unit(i + 1) \in 56320..57343
    IN CASE i > Len(chars) -> <<>>
         [] paired -> <<65536 + (unit(i) - 55296) * 1024 + (unit(i + 1) - 56320)>>
                      \o codePoints(chars, i + 2)
         [] OTHER -> <<unit(i)>> \o codePoints(chars, i + 1)

\* The code units of a sequence of code points
RECURSIVE codeUnits(_)
codeUnits(points) ==
    CASE points = <<>> -> <<>>
      [] Head(points) >= 65536 ->
            <<fromCharCode(55296 + (Head(points) - 65536) \div 1024),
              fromCharCode(56320 + ((Head(points) - 65536) % 1024))>> \o codeUnits(Tail(points))
      [] OTHER -> <<fromCharCode(Head(points))>> \o codeUnits(Tail(points))

\* The mapping of the code point p by a table of ranges and a table of
\* special mappings
caseMapped(p, ranges, special) ==
    CASE \E k \in 1..Len(special) : special[k][1] = p ->
            special[CHOOSE k \in 1..Len(special) : special[k][1] = p][2]
      [] \E k \in 1..Len(ranges) :
            /\ ranges[k][1] <= p /\ p <= ranges[k][2]
            /\ (p - ranges[k][1]) % ranges[k][3] = 0 ->
            <<p + ranges[CHOOSE k \in 1..Len(ranges) :
                            /\ ranges[k][1] <= p /\ p <= ranges[k][2]
                            /\ (p - ranges[k][1]) % ranges[k][3] = 0][4]>>
      [] OTHER -> <<p>>

\* String.prototype.toUpperCase
toUpperCase(chars) ==
    LET RECURSIVE mapped(_)
        mapped(points) ==
            IF points = <<>> THEN <<>>
            ELSE caseMapped(Head(points), UpperRanges, UpperSpecial) \o mapped(Tail(points))
    IN codeUnits(mapped(codePoints(chars, 1)))

\* String.prototype.toLowerCase.  A capital sigma (U+03A3) becomes the final
\* sigma (U+03C2) when Final_Sigma holds: going back over case-ignorable
\* code points there is a cased one before it, and going on over
\* case-ignorable code points there is no cased one after it.
toLowerCase(chars) ==
    LET within(p, ranges) == \E k \in 1..Len(ranges) : ranges[k][1] <= p /\ p <= ranges[k][2]
        \* a cased code point stands at j, with case-ignorable ones only
        \* between it and i
        casedAt(points, j, i) ==
            /\ within(points[j], Cased)
            /\ \A m \in 1..Len(points) :
                  (j < m /\ m < i) \/ (i < m /\ m < j) => within(points[m], CaseIgnorable)
        finalSigma(points, i) ==
            /\ points[i] = 931
            /\ \E j \in 1..Len(points) : j < i /\ casedAt(points, j, i)
            /\ ~\E j \in 1..Len(points) : j > i /\ casedAt(points, j, i)
        mapped(points, final) ==
            [i \in 1..Len(points) |->
                IF final[i] THEN <<962>> ELSE caseMapped(points[i], LowerRanges, LowerSpecial)]
        RECURSIVE flat(_)
        flat(seqs) == IF seqs = <<>> THEN <<>> ELSE Head(seqs) \o flat(Tail(seqs))
        lowered(points) ==
            flat(mapped(points, [i \in 1..Len(points) |-> finalSigma(points, i)]))
    IN codeUnits(lowered(codePoints(chars, 1)))

\* String.prototype.trim
RECURSIVE trimStart(_)
trimStart(chars) ==
    IF chars # <<>> /\ IsSpace(Head(chars)) THEN trimStart(Tail(chars)) ELSE chars
RECURSIVE trimEnd(_)
trimEnd(chars) ==
    IF chars # <<>> /\ IsSpace(chars[Len(chars)])
    THEN trimEnd(SubSeq(chars, 1, Len(chars) - 1))
    ELSE chars
trim(chars) == trimEnd(trimStart(chars))

\* String.prototype.split(sep) for a one-character separator
RECURSIVE split(_, _)
split(chars, sep) ==
    IF \E k \in 1..Len(chars) : chars[k] = sep
    THEN LET k == CHOOSE k \in 1..Len(chars) :
                    chars[k] = sep /\ \A j \in 1..(k - 1) : chars[j] # sep
         IN <<SubSeq(chars, 1, k - 1)>> \o split(SubSeq(chars, k + 1, Len(chars)), sep)
    ELSE <<chars>>

\* Array.prototype.join(sep) on character sequences
RECURSIVE Join(_, _)
Join(parts, sep) ==
    IF parts = <<>> THEN <<>>
    ELSE IF Len(parts) = 1 THEN parts[1]
    ELSE parts[1] \o <<sep>> \o Join(Tail(parts), sep)

\* The decimal digits of a natural number: `${index}`
RECURSIVE NatToChars(_)
NatToChars(k) ==
    IF k < 10 THEN <<Digits[k + 1]>>
    ELSE NatToChars(k \div 10) \o <<Digits[(k % 10) + 1]>>

RECURSIVE CharsToNat(_)
CharsToNat(chars) ==
    IF chars = <<>> THEN 0
    ELSE 10 * CharsToNat(SubSeq(chars, 1, Len(chars) - 1))
         + (IndexOf(chars[Len(chars)], Digits) - 1)

\* A name is a string used as a whole (an object key, a field name, a
\* message): its characters written one after the other, a backslash written
\* twice, so that the name of the one character "\\u00e9" and the name of
\* the six characters \, u, 0, 0, e, 9 differ.
\* AsName is the name spelled by a sequence of characters, Chars the
\* characters of a name.
RECURSIVE AsName(_)
AsName(chars) ==
    IF chars = <<>> THEN ""
    ELSE (IF Head(chars) = "\\" THEN "\\\\" ELSE Head(chars)) \o AsName(Tail(chars))
RECURSIVE Chars(_)
Chars(name) ==
    CASE name = "" -> <<>>
      [] SubSeq(name, 1, 1) # "\\" ->
            <<SubSeq(name, 1, 1)>> \o Chars(SubSeq(name, 2, Len(name)))
      [] SubSeq(name, 2, 2) = "\\" -> <<"\\">> \o Chars(SubSeq(name, 3, Len(name)))
      [] OTHER -> <<SubSeq(name, 1, 6)>> \o Chars(SubSeq(name, 7, Len(name)))

(***************************************************************************)
(* JavaScript values.  One record shape for all of them:                   *)
(*   t = "undefined" | "null" | "string" | "number" | "boolean" | "NaN"    *)
(*       | "object" | "array" | "function" | "prototype"                   *)
(*   s = the characters of a string; of a number, its decimal form as      *)
(*       Number.prototype.toString gives it ("0", "1.5", "-1", "1e+21",    *)
(*       "Infinity"); of a nested array, its String() form; of a nested    *)
(*       plain object, the names of its own properties in enumeration      *)
(*       order (their values are not held); of a built-in function, its    *)
(*       name; of a prototype object, its class                            *)
(*   n = 1 for true, and for a nested array whose String() form does not   *)
(*       exist because the conversion throws                               *)
(* TypeError stands for the TypeError a conversion or an assignment        *)
(* throws; it is no JavaScript value.                                      *)
(***************************************************************************)
Undefined == [t |-> "undefined", s |-> <<>>, n |-> 0]
Null == [t |-> "null", s |-> <<>>, n |-> 0]
NaN == [t |-> "NaN", s |-> <<>>, n |-> 0]
ObjWith(keys) == [t |-> "object", s |-> keys, n |-> 0]
Obj == ObjWith(<<>>)
Str(chars) == [t |-> "string", s |-> chars, n |-> 0]
Num(k) == [t |-> "number", s |-> NatToChars(k), n |-> 0]
Bool(b) == [t |-> "boolean", s |-> <<>>, n |-> IF b THEN 1 ELSE 0]
Arr(chars) == [t |-> "array", s |-> chars, n |-> 0]
ArrThrowing == [t |-> "array", s |-> <<>>, n |-> 1]
TypeError == [t |-> "TypeError", s |-> <<"TypeError">>, n |-> 0]
Func(name) == [t |-> "function", s |-> Chars(name), n |-> 0]
Prototype(class) == [t |-> "prototype", s |-> Chars(class), n |-> 0]

\* value === undefined || value === null || value === ''
IsEmpty(value) ==
    \/ value = Undefined
    \/ value = Null
    \/ value = Str(<<>>)

\* JavaScript truthiness, as used by `recordId || ...` and `values[idx] || ''`
Truthy(value) ==
    CASE value.t = "undefined" -> FALSE
      [] value.t = "null" -> FALSE
      [] value.t = "NaN" -> FALSE
      [] value.t = "string" -> value.s # <<>>
      [] value.t = "number" -> value.s # <<"0">>
      [] value.t = "boolean" -> value.n = 1
      [] OTHER -> TRUE

\* ToPrimitive(value) throws a TypeError: a property toString of a nested
\* object's own is no function (JSON holds none), and Object.prototype's
\* valueOf returns the object itself; Array.prototype.toString joins the
\* elements and converts each of them
ToPrimitiveThrows(value) ==
    \/ value.t = "object" /\ \E k \in 1..Len(value.s) : value.s[k] = "toString"
    \/ value.t = "array" /\ value.n = 1

\* String(value): its characters, or TypeError's when the conversion throws
String(value) ==
    CASE ToPrimitiveThrows(value) -> TypeError.s
      [] value.t = "string" -> value.s
      [] value.t = "number" -> value.s
      [] value.t = "boolean" ->
            IF value.n = 1 THEN <<"t","r","u","e">> ELSE <<"f","a","l","s","e">>
      [] value.t = "null" -> <<"n","u","l","l">>
      [] value.t = "undefined" -> <<"u","n","d","e","f","i","n","e","d">>
      [] value.t = "NaN" -> <<"N","a","N">>
      [] value.t = "array" -> value.s
      [] value.t = "function" ->
            Chars("function ") \o value.s \o Chars("() { [native code] }")
      [] value.t = "prototype" /\ value.s = Chars("Number") -> <<"0">>
      [] value.t = "prototype" /\ value.s = Chars("Boolean") -> <<"f","a","l","s","e">>
      [] value.t = "prototype" /\ value.s \in {Chars("String"), Chars("Array")} -> <<>>
      [] OTHER -> <<"[","o","b","j","e","c","t"," ","O","b","j","e","c","t","]">>

\* Natural numbers of any size: sequences of the digit values 0..9, most
\* significant first, <<>> being 0.  double is 2x (the carry into a digit
\* is 1 when the digit after it is at least 5), succ is x + 1.
double(x) ==
    (IF x # <<>> /\ x[1] >= 5 THEN <<1>> ELSE <<>>)
    \o [i \in 1..Len(x) |-> (2 * x[i] + (IF i < Len(x) /\ x[i + 1] >= 5 THEN 1 ELSE 0)) % 10]
succ(x) ==
    IF \A i \in 1..Len(x) : x[i] = 9 THEN <<1>> \o [i \in 1..Len(x) |-> 0]
    ELSE LET at == CHOOSE i \in 1..Len(x) : x[i] # 9 /\ \A j \in (i + 1)..Len(x) : x[j] = 9
         IN [i \in 1..Len(x) |-> IF i < at THEN x[i] ELSE IF i = at THEN x[i] + 1 ELSE 0]

\* The number with integer digits int, fraction digits frac and decimal
\* exponent e, negative when neg: the double nearest to it (ties to the even
\* significand), held by its Number.prototype.toString form, which has the
\* fewest significant digits that still denote that double and, among
\* those, the ones nearest to it.  Numbers are sequences of the digit
\* values 0..9, most significant first, <<>> being 0.
\*   digits, k, n - the significant digits of the literal (from its first to
\*                  its last digit that is not 0), their number, and the
\*                  position of the decimal point after their start: the
\*                  value is 0.digits * 10^n
\*   form         - Number::toString of such digits
\*   exact        - at most 15 significant digits inside the normal range:
\*                  the nearest double is denoted by the digits themselves
\*                  and by no other 15 digits (10^15 < 2^52)
\*   half, pred, less - x div 2, x - 1, x < y
\*   start, step, running, times, scaledTo - the value scaled by a
\*                  power of two: a state is [x, places, sticky, q, down],
\*                  the value being (x / 10^places + f) * 2^q with
\*                  0 <= f < 1, f > 0 when sticky.  Going down, a step
\*                  halves x for as long as x >= 2^54; going up, a step
\*                  doubles x for as long as its integer part is below 2^53
\*                  and q is above -1075, the exponent of the subnormal
\*                  numbers.  times takes steps while the state is
\*                  running, 2^j at most; scaledTo is the integer J,
\*                  sticky and q it ends with
\*   rounded      - the significand m and the exponent q of the nearest
\*                  double m * 2^q
\*   scaled       - x * 2^q as an integer number of units 10^-s, where
\*                  s = -q for a negative q and 0 otherwise
\*   shortest     - the digits of the shortest decimal between lo and hi
\*                  nearest to mid (all three of the same length, the
\*                  bounds included when the significand is even)
DecimalNumber(neg, int, frac, e) ==
    LET all == [i \in 1..(Len(int) + Len(frac)) |-> IndexOf((int \o frac)[i], Digits) - 1]
        nonzero == {i \in 1..Len(all) : all[i] # 0}
        first == CHOOSE i \in nonzero : \A j \in nonzero : i <= j
        last == CHOOSE i \in nonzero : \A j \in nonzero : i >= j
        \* more than 800 digits: the digits after the 800th only tell
        \* whether the value lies above the first 800
        digits == IF last - first + 1 > 800
                  THEN Append(SubSeq(all, first, first + 799), 1)
                  ELSE SubSeq(all, first, last)
        zeros(m) == [i \in 1..m |-> 0]
        text(x) == [i \in 1..Len(x) |-> Digits[x[i] + 1]]
        form(sign, ds, k, n) ==
            CASE k <= n /\ n <= 21 -> sign \o text(ds) \o text(zeros(n - k))
              [] 0 < n /\ n <= 21 ->
                    sign \o text(SubSeq(ds, 1, n)) \o <<".">> \o text(SubSeq(ds, n + 1, k))
              [] -6 < n /\ n <= 0 -> sign \o <<"0", ".">> \o text(zeros(-n)) \o text(ds)
              [] OTHER ->
                    sign \o text(<<ds[1]>>)
                    \o (IF k > 1 THEN <<".">> \o text(SubSeq(ds, 2, k)) ELSE <<>>)
                    \o <<"e">> \o (IF n - 1 >= 0 THEN <<"+">> ELSE <<"-">>)
                    \o NatToChars(IF n - 1 >= 0 THEN n - 1 ELSE 1 - n)
        strip(x) ==
            IF \E i \in 1..Len(x) : x[i] # 0
            THEN SubSeq(x, CHOOSE i \in 1..Len(x) : x[i] # 0 /\ \A j \in 1..(i - 1) : x[j] = 0,
                        Len(x))
            ELSE <<>>
        half(x) ==
            strip([i \in 1..Len(x) |->
                      (x[i] + (IF i > 1 /\ x[i - 1] % 2 = 1 THEN 10 ELSE 0)) \div 2])
        odd(x) == x # <<>> /\ x[Len(x)] % 2 = 1
        less(x, y) ==
            \/ Len(x) < Len(y)
            \/ /\ Len(x) = Len(y)
               /\ \E i \in 1..Len(x) : x[i] < y[i] /\ \A j \in 1..(i - 1) : x[j] = y[j]
        pred(x) ==
            LET at == CHOOSE i \in 1..Len(x) : x[i] # 0 /\ \A j \in (i + 1)..Len(x) : x[j] = 0
            IN strip([i \in 1..Len(x) |->
                         IF i < at THEN x[i] ELSE IF i = at THEN x[i] - 1 ELSE 9])
        TwoTo52 == <<4,5,0,3,5,9,9,6,2,7,3,7,0,4,9,6>>
        TwoTo53 == <<9,0,0,7,1,9,9,2,5,4,7,4,0,9,9,2>>
        TwoTo54 == <<1,8,0,1,4,3,9,8,5,0,9,4,8,1,9,8,4>>
        whole(s) == IF Len(s.x) > s.places THEN SubSeq(s.x, 1, Len(s.x) - s.places) ELSE <<>>
        step(s) ==
            IF s.down
            THEN [s EXCEPT !.x = half(s.x), !.sticky = s.sticky \/ odd(s.x), !.q = s.q + 1]
            ELSE [s EXCEPT !.x = double(s.x), !.q = s.q - 1]
        running(s) ==
            IF s.down THEN ~less(s.x, TwoTo54)
            ELSE s.q > -1075 /\ less(whole(s), TwoTo53)
        \* while (running(s)) s = step(s), for at most 2^j steps; the state
        \* is computed before it is passed on
        RECURSIVE times(_, _)
        times(s, j) ==
            IF j = 0 THEN (IF running(s) THEN step(s) ELSE s)
            ELSE LET a == times(s, j - 1) IN IF running(a) THEN times(a, j - 1) ELSE a
        ended(s) ==
            [J |-> whole(s),
             sticky |-> s.sticky \/ \E i \in 1..Len(s.x) : i > Len(s.x) - s.places /\ s.x[i] # 0,
             q |-> s.q]
        scaledTo(s) == ended(times(s, 11))
        rounded(s) ==
            LET up == odd(s.J) /\ (s.sticky \/ odd(half(s.J)))
                m == IF up THEN succ(half(s.J)) ELSE half(s.J)
            IN IF m = TwoTo53 THEN [m |-> TwoTo52, q |-> s.q + 2]
               ELSE [m |-> m, q |-> s.q + 1]
        RECURSIVE scaled(_, _)
        scaled(x, q) ==
            CASE q = 0 \/ x = <<>> -> x
              [] q = 1 -> double(x)
              [] q = -1 -> half(Append(x, 0))
              [] q > 1 ->
                    LET a == scaled(x, q \div 2)
                    IN IF a = <<>> THEN a ELSE scaled(a, q - (q \div 2))
              [] OTHER ->
                    LET a == scaled(x, 0 - ((0 - q) \div 2))
                    IN IF a = <<>> THEN a ELSE scaled(a, q + ((0 - q) \div 2))
        shortest(lo, mid, hi, even) ==
            LET inside(x) ==
                    IF even THEN ~less(x, lo) /\ ~less(hi, x) ELSE less(lo, x) /\ less(x, hi)
                down(p) == [i \in 1..Len(mid) |-> IF i <= p THEN mid[i] ELSE 0]
                up(p) == IF \A i \in 1..p : mid[i] = 9 THEN Append(hi, 0)
                         ELSE succ(SubSeq(mid, 1, p)) \o zeros(Len(mid) - p)
                fits(x, p) == inside(x) /\ \A r \in 1..(p - 1) : ~inside(down(r)) /\ ~inside(up(r))
                closer(below, above, rest, five) ==
                    CASE ~inside(above) -> below
                      [] ~inside(below) -> above
                      [] less(rest, five) -> below
                      [] less(five, rest) -> above
                      [] below[Len(mid) - Len(rest)] % 2 = 0 -> below
                      [] OTHER -> above
                cut(at) ==
                    closer(down(at), up(at), SubSeq(mid, at + 1, Len(mid)),
                           IF at = Len(mid) THEN <<>> ELSE <<5>> \o zeros(Len(mid) - at - 1))
            IN cut(CHOOSE p \in 1..Len(mid) : fits(down(p), p) \/ fits(up(p), p))
        pad(x, width) == zeros(width - Len(x)) \o x
        printed(sign, ds, units) ==
            LET from == CHOOSE i \in 1..Len(ds) : ds[i] # 0 /\ \A j \in 1..(i - 1) : ds[j] = 0
                to == CHOOSE i \in 1..Len(ds) : ds[i] # 0 /\ \A j \in (i + 1)..Len(ds) : ds[j] = 0
            IN form(sign, SubSeq(ds, from, to), to - from + 1, Len(ds) - units - from + 1)
        \* the doubles next to m * 2^q lie 2^q away, or 2^(q-1) below a
        \* power of two: the decimals that denote the double lie between
        \* lo and hi, in units of 10^-units
        bounds(r) ==
            [lo |-> scaled(IF r.m = TwoTo52 /\ r.q > -1074
                           THEN pred(double(double(r.m)))
                           ELSE pred(pred(double(double(r.m)))), r.q - 2),
             mid |-> scaled(double(double(r.m)), r.q - 2),
             hi |-> scaled(succ(succ(double(double(r.m)))), r.q - 2)]
        nearest(sign, r, b) ==
            CASE r.m = <<>> -> <<"0">>
              [] r.q > 971 -> sign \o <<"I","n","f","i","n","i","t","y">>
              [] OTHER ->
                    printed(sign, shortest(pad(b.lo, Len(b.hi)), pad(b.mid, Len(b.hi)), b.hi,
                                           ~odd(r.m)),
                            IF r.q - 2 < 0 THEN 2 - r.q ELSE 0)
        start(ds, k, n) ==
            CASE n >= k /\ ~less(ds \o zeros(n - k), TwoTo54) ->
                    [x |-> ds \o zeros(n - k), places |-> 0, sticky |-> FALSE, q |-> 0,
                     down |-> TRUE]
              [] n > 0 /\ n < k /\ ~less(SubSeq(ds, 1, n), TwoTo54) ->
                    [x |-> SubSeq(ds, 1, n), places |-> 0, sticky |-> TRUE, q |-> 0,
                     down |-> TRUE]
              [] OTHER ->
                    [x |-> ds \o zeros(n - k), places |-> IF k > n THEN k - n ELSE 0,
                     sticky |-> FALSE, q |-> 0, down |-> FALSE]
        exact(k, n) == k <= 15 /\ -306 <= n /\ n <= 308
        converted(sign, ds, k, n, r) ==
            CASE exact(k, n) -> form(sign, ds, k, n)
              [] n > 309 -> sign \o <<"I","n","f","i","n","i","t","y">>
              [] n < -323 -> <<"0">>
              [] OTHER -> nearest(sign, r, bounds(r))
    IN [t |-> "number",
        s |-> IF nonzero = {} THEN <<"0">>
              ELSE converted(IF neg THEN <<"-">> ELSE <<>>, digits, Len(digits),
                             Len(int) - first + 1 + e,
                             rounded(scaledTo(start(digits, Len(digits),
                                                    Len(int) - first + 1 + e)))),
        n |-> 0]

\* Number(string): StringToNumber of ECMAScript.  White space is trimmed;
\* '' is 0; then [+-]Infinity, a 0x / 0o / 0b literal without sign, or a
\* decimal literal with optional sign, point and exponent; NaN otherwise.
\* The literal is taken apart step by step, each step handing its parts to
\* the next one, into [kind, neg, int, frac, e]: kind "NaN", "Infinity" or
\* "decimal", the sign, the integer and fraction digits, the exponent.
\*   literal        - the trimmed text
\*   radixToDecimal - the number x followed by the digits rs of a 0x / 0o /
\*                    0b literal (shifted is x * radix, plus is x + d,
\*                    written the decimal digits as characters)
\*   unsigned       - the text after the sign, cut at its first e or E
\*   mantissa       - the part before the exponent mark, cut at its first point
\*   decimal        - integer digits, fraction digits and exponent part
\*   exponent       - the value of the exponent digits with their sign
\*   number         - the Number value of the parts p, value being that
\*                    of a decimal literal
StringToNumber(chars) ==
    LET least(set) == IF set = {} THEN 0 ELSE CHOOSE k \in set : \A j \in set : k <= j
        digits(ds) == \A k \in 1..Len(ds) : IsDigit(ds[k])
        from(seq, k) == SubSeq(seq, k, Len(seq))
        before(seq, k) == SubSeq(seq, 1, k - 1)
        parts(kind, neg, int, frac, e) ==
            [kind |-> kind, neg |-> neg, int |-> int, frac |-> frac, e |-> e]
        shifted(x, radix) ==
            CASE radix = 16 -> double(double(double(double(x))))
              [] radix = 8 -> double(double(double(x)))
              [] OTHER -> double(x)
        RECURSIVE plus(_, _)
        plus(x, d) == IF d = 0 THEN x ELSE plus(succ(x), d - 1)
        RECURSIVE radixToDecimal(_, _, _)
        radixToDecimal(x, rs, radix) ==
            CASE rs = <<>> -> x
              [] Len(rs) = 1 -> plus(shifted(x, radix), hexValue(rs[1]))
              [] OTHER ->
                    LET a == radixToDecimal(x, before(rs, (Len(rs) \div 2) + 1), radix)
                    IN IF a = <<>> THEN radixToDecimal(<<>>, from(rs, (Len(rs) \div 2) + 1), radix)
                       ELSE radixToDecimal(a, from(rs, (Len(rs) \div 2) + 1), radix)
        written(x) == [i \in 1..Len(x) |-> Digits[x[i] + 1]]
        radixLiteral(ds, radix) ==
            IF ds # <<>> /\ \A k \in 1..Len(ds) : hexValue(ds[k]) \in 0..(radix - 1)
            THEN parts("decimal", FALSE, written(radixToDecimal(<<>>, ds, radix)), <<>>, 0)
            ELSE parts("NaN", FALSE, <<>>, <<>>, 0)
        exponent(negative, es) ==
            LET magnitude(short) == IF Len(short) > 5 THEN 99999 ELSE CharsToNat(short)
                signed(m) == IF negative THEN 0 - m ELSE m
                significant(nz) == IF nz = 0 THEN <<>> ELSE from(es, nz)
            IN signed(magnitude(significant(least({k \in 1..Len(es) : es[k] # "0"}))))
        decimal(neg, int, frac, marked, expNeg, es) ==
            IF /\ digits(int) /\ digits(frac) /\ Len(int) + Len(frac) > 0
               /\ marked => (es # <<>> /\ digits(es))
            THEN parts("decimal", neg, int, frac, exponent(expNeg, es))
            ELSE parts("NaN", FALSE, <<>>, <<>>, 0)
        pointed(neg, mant, dot, marked, expo) ==
            decimal(neg,
                    IF dot = 0 THEN mant ELSE before(mant, dot),
                    IF dot = 0 THEN <<>> ELSE from(mant, dot + 1),
                    marked,
                    expo # <<>> /\ Head(expo) = "-",
                    IF expo # <<>> /\ Head(expo) \in {"+", "-"} THEN Tail(expo) ELSE expo)
        mantissa(neg, mant, marked, expo) ==
            pointed(neg, mant, least({k \in 1..Len(mant) : mant[k] = "."}), marked, expo)
        marked(neg, rest, mark) ==
            mantissa(neg,
                     IF mark = 0 THEN rest ELSE before(rest, mark),
                     mark # 0,
                     IF mark = 0 THEN <<>> ELSE from(rest, mark + 1))
        unsigned(neg, rest) ==
            marked(neg, rest, least({k \in 1..Len(rest) : rest[k] \in {"e", "E"}}))
        literal(body) ==
            CASE body = <<>> -> parts("decimal", FALSE, <<"0">>, <<>>, 0)
              [] body \in {Chars("Infinity"), Chars("+Infinity"), Chars("-Infinity")} ->
                    parts("Infinity", Head(body) = "-", <<>>, <<>>, 0)
              [] Len(body) >= 2 /\ body[1] = "0" /\ body[2] \in {"x", "X", "o", "O", "b", "B"} ->
                    radixLiteral(from(body, 3),
                                 CASE body[2] \in {"x", "X"} -> 16
                                   [] body[2] \in {"o", "O"} -> 8
                                   [] OTHER -> 2)
              [] OTHER ->
                    unsigned(Head(body) = "-",
                             IF Head(body) \in {"+", "-"} THEN Tail(body) ELSE body)
        number(p, value) ==
            CASE p.kind = "NaN" -> NaN
              [] p.kind = "Infinity" ->
                    [t |-> "number",
                     s |-> (IF p.neg THEN <<"-">> ELSE <<>>) \o Chars("Infinity"),
                     n |-> 0]
              [] OTHER -> value
        parsed == literal(trim(chars))
    IN number(parsed, DecimalNumber(parsed.neg, parsed.int, parsed.frac, parsed.e))

\* Number(value), or TypeError when the conversion throws
Number(value) ==
    CASE ToPrimitiveThrows(value) -> TypeError
      [] value.t = "number" -> value
      [] value.t = "boolean" -> Num(value.n)
      [] value.t = "null" -> Num(0)
      [] value.t \in {"string", "array"} -> StringToNumber(value.s)
      [] value.t = "prototype" /\ value.s # Chars("Object") -> Num(0)
      [] OTHER -> NaN
isNaN(value) == value.t = "NaN"

(***************************************************************************)
(* Objects: a sequence of [key, val] entries, the own properties in key    *)
(* enumeration order (array indices first, ascending, then the other keys  *)
(* in creation order), keys unique.  Their prototype is Object.prototype.  *)
(***************************************************************************)
HasKey(entries, key) == \E k \in 1..Len(entries) : entries[k].key = key
Keys(entries) == {entries[k].key : k \in 1..Len(entries)}

\* Own property names of the built-in prototypes (ECMAScript 2023)
ObjectPrototypeKeys ==
    {"constructor", "toString", "toLocaleString", "valueOf", "hasOwnProperty",
     "isPrototypeOf", "propertyIsEnumerable", "__proto__", "__defineGetter__",
     "__defineSetter__", "__lookupGetter__", "__lookupSetter__"}
\* value[key] for a key that is not an own property of a value of the given
\* class: the member found on the prototype chain (PrototypeKeys are the
\* own property names of the class's prototype, ECMAScript 2023), or
\* undefined
inherited(class, key) ==
    LET PrototypeKeys ==
            CASE class = "String" ->
                    {"length", "constructor", "anchor", "at", "big", "blink", "bold", "charAt",
                     "charCodeAt", "codePointAt", "concat", "endsWith", "fontcolor", "fontsize",
                     "fixed", "includes", "indexOf", "isWellFormed", "italics", "lastIndexOf",
                     "link", "localeCompare", "match", "matchAll", "normalize", "padEnd",
                     "padStart", "repeat", "replace", "replaceAll", "search", "slice", "small",
                     "split", "strike", "sub", "substr", "substring", "sup", "startsWith",
                     "toString", "toWellFormed", "trim", "trimStart", "trimLeft", "trimEnd",
                     "trimRight", "toLocaleLowerCase", "toLocaleUpperCase", "toLowerCase",
                     "toUpperCase", "valueOf"}
              [] class = "Array" ->
                    {"length", "constructor", "at", "concat", "copyWithin", "fill", "find",
                     "findIndex", "findLast", "findLastIndex", "lastIndexOf", "pop", "push",
                     "reverse", "shift", "unshift", "slice", "sort", "splice", "includes",
                     "indexOf", "join", "keys", "entries", "values", "forEach", "filter", "flat",
                     "flatMap", "map", "every", "some", "reduce", "reduceRight", "toLocaleString",
                     "toString", "toReversed", "toSorted", "toSpliced", "with"}
              [] class = "Number" ->
                    {"constructor", "toExponential", "toFixed", "toPrecision", "toString",
                     "valueOf", "toLocaleString"}
              [] class = "Boolean" -> {"constructor", "toString", "valueOf"}
              [] OTHER -> ObjectPrototypeKeys
    IN CASE key \notin PrototypeKeys \cup ObjectPrototypeKeys -> Undefined
         [] key = "__proto__" -> Prototype(class)
         [] key = "constructor" -> Func(class)
         [] key = "length" -> Num(0)
         [] key = "trimLeft" /\ class = "String" -> Func("trimStart")
         [] key = "trimRight" /\ class = "String" -> Func("trimEnd")
         [] OTHER -> Func(key)

\* object[key]: the own property, else the member inherited from
\* Object.prototype, else undefined
Get(entries, key) ==
    IF HasKey(entries, key)
    THEN entries[CHOOSE k \in 1..Len(entries) : entries[k].key = key].val
    ELSE inherited("Object", key)

\* An array index: a canonical numeric string below 2^32 - 1
IsArrayIndex(key) ==
    LET chars == Chars(key)
        bound == Chars("4294967294")
    IN /\ chars # <<>>
       /\ \A k \in 1..Len(chars) : IsDigit(chars[k])
       /\ (Len(chars) > 1 => chars[1] # "0")
       /\ \/ Len(chars) < 10
          \/ /\ Len(chars) = 10
             /\ \/ chars = bound
                \/ \E i \in 1..10 :
                      /\ IndexOf(chars[i], Digits) < IndexOf(bound[i], Digits)
                      /\ \A j \in 1..(i - 1) : chars[j] = bound[j]

\* CreateDataProperty(object, key, val): an existing key keeps its position,
\* a new array index goes among the array indices in ascending order, any
\* other new key goes last
defineProperty(entries, key, val) ==
    LET before(a, b) ==
            \/ Len(a) < Len(b)
            \/ /\ Len(a) = Len(b)
               /\ \E i \in 1..Len(a) :
                     /\ IndexOf(SubSeq(a, i, i), Digits) < IndexOf(SubSeq(b, i, i), Digits)
                     /\ \A j \in 1..(i - 1) : SubSeq(a, j, j) = SubSeq(b, j, j)
        ahead == {k \in 1..Len(entries) :
                    IsArrayIndex(entries[k].key) /\ before(entries[k].key, key)}
        entry == [key |-> key, val |-> val]
    IN CASE HasKey(entries, key) ->
                [k \in 1..Len(entries) |-> IF entries[k].key = key THEN entry ELSE entries[k]]
         [] IsArrayIndex(key) ->
                SubSeq(entries, 1, Cardinality(ahead)) \o <<entry>>
                \o SubSeq(entries, Cardinality(ahead) + 1, Len(entries))
         [] OTHER -> Append(entries, entry)

\* object[key] = val on an object that has Object.prototype as prototype.
\* The key __proto__ is the accessor of Object.prototype: the assignment
\* creates no own property (it replaces the prototype when val is an object
\* or null; `assign` keeps track of the null case).
Put(entries, key, val) ==
    IF key = "__proto__" THEN entries ELSE defineProperty(entries, key, val)

\* A source record, an element of the parsed source sequence:
\*   k = "object" with its entries, "null", "scalar" with its value val (a
\*   string, number or boolean), or "array" with its elements items
ObjectRecord(entries) == [k |-> "object", entries |-> entries]
NullRecord == [k |-> "null", entries |-> <<>>]
ScalarRecord(val) == [k |-> "scalar", entries |-> <<>>, val |-> val]
ArrayRecord(items) == [k |-> "array", entries |-> <<>>, items |-> items]

(***************************************************************************)
(* Source Parser                                                           *)
(***************************************************************************)
\* record[header] = values[idx] || '' for every header, in header order
RECURSIVE csvRecord(_, _, _, _)
csvRecord(headers, values, idx, record) ==
    IF idx > Len(headers) THEN record
    ELSE csvRecord(headers, values, idx + 1,
            Put(record, headers[idx],
                IF idx <= Len(values) /\ values[idx] # <<>>
                THEN Str(values[idx]) ELSE Str(<<>>)))

\* Mutant: the text is split into lines without being trimmed first
parseCSVUntrimmedText(csvString) ==
    LET lines == split(csvString, "\n")
        headerCells == split(lines[1], ",")
        headers == [h \in 1..Len(headerCells) |-> AsName(trim(headerCells[h]))]
        valuesOf(line) == LET cells == split(line, ",")
                          IN [v \in 1..Len(cells) |-> trim(cells[v])]
    IN IF Len(lines) < 2 THEN <<>>
       ELSE [i \in 1..(Len(lines) - 1) |->
                ObjectRecord(csvRecord(headers, valuesOf(lines[i + 1]), 1, <<>>))]

parseCSV(csvString) ==
    LET lines == split(trim(csvString), "\n")
        headerCells == split(lines[1], ",")
        headers == [h \in 1..Len(headerCells) |-> AsName(trim(headerCells[h]))]
        valuesOf(line) == LET cells == split(line, ",")
                          IN [v \in 1..Len(cells) |-> trim(cells[v])]
    IN IF Len(lines) < 2 THEN <<>>
       ELSE [i \in 1..(Len(lines) - 1) |->
                ObjectRecord(csvRecord(headers, valuesOf(lines[i + 1]), 1, <<>>))]

(***************************************************************************)
(* A source payload (req.body.sourceFile):                                 *)
(*   kind "absent"  - no sourceFile in the request body                    *)
(*   kind "text"    - a string given by its characters                     *)
(*   kind "json"    - a string that is the JSON text of the document doc   *)
(* A JSON document: k = "array" (items), "object" (entries, each either    *)
(* array-valued with its items or holding the value val), "scalar" (a      *)
(* number, string or boolean), "null".                                     *)
(***************************************************************************)
AbsentSource == [kind |-> "absent", text |-> <<>>, doc |-> [k |-> "none", items |-> <<>>, entries |-> <<>>]]
TextSource(chars) == [kind |-> "text", text |-> chars, doc |-> [k |-> "none", items |-> <<>>, entries |-> <<>>]]
JsonSource(doc) == [kind |-> "json", text |-> <<>>, doc |-> doc]

ArrayDoc(items) == [k |-> "array", items |-> items, entries |-> <<>>]
ObjectDoc(entries) == [k |-> "object", items |-> <<>>, entries |-> entries]
ScalarDoc(val) == [k |-> "scalar", items |-> <<>>, entries |-> <<>>, val |-> val]
NullDoc == [k |-> "null", items |-> <<>>, entries |-> <<>>]
ArrayEntry(key, items) == [key |-> key, isArray |-> TRUE, items |-> items, val |-> Undefined]
ValueEntry(key, val) == [key |-> key, isArray |-> FALSE, items |-> <<>>, val |-> val]

(***************************************************************************)
(* JSON.parse on a text, read from left to right with a stack of the open  *)
(* arrays and objects.  A parsed node is [j, val, items]: j = "null",      *)
(* "scalar", "array" (items are nodes) or "object" (items are the own      *)
(* properties [key, val], val a node: every member is defined in text      *)
(* order, so a repeated key keeps its first position and its last value);  *)
(* val is the node as the value of a property (of an array, its String()   *)
(* form, of an object, its own property names).  The result is [ok,        *)
(* node]: the whole text is one JSON value between white space, or the     *)
(* text is a syntax error.                                                 *)
(*   skip         - JSON white space (form feed is not part of it)         *)
(*   numberLength - the length of the JSON number at the head, 0 when      *)
(*                  there is none: an optional minus, then 0 or digits     *)
(*                  without a leading 0, then optionally a point and       *)
(*                  digits, then optionally e or E, a sign and digits      *)
(*   string       - a JSON string, standing after its opening quote        *)
(* JsonRun is the parser from the state s = [mode, rest, stack, node] on:   *)
(* in mode "value" a value begins, in mode "key" a member of an object, in  *)
(* mode "after" the value node has been read.                              *)
(*   inside       - a value has been read in the innermost open array or   *)
(*                  object, which has the content items with that value:   *)
(*                  it goes on or is closed                                *)
(***************************************************************************)
RECURSIVE JsonRun(_)
JsonRun(s) ==
    LET RECURSIVE skip(_)
        skip(cs) ==
            IF cs # <<>> /\ Head(cs) \in {" ", "\t", "\n", "\r"} THEN skip(Tail(cs)) ELSE cs
        drop(cs, n) == SubSeq(cs, n + 1, Len(cs))
        numberLength(cs) ==
            LET at(i) == IF i <= Len(cs) THEN cs[i] ELSE ""
                run(i) == (CHOOSE j \in i..(Len(cs) + 1) :
                              /\ \A m \in i..(j - 1) : IsDigit(cs[m])
                              /\ (j = Len(cs) + 1 \/ ~IsDigit(cs[j]))) - i
                exponent(mark, first, expLen) ==
                    CASE at(mark) \notin {"e", "E"} -> mark - 1
                      [] expLen = 0 -> 0
                      [] OTHER -> first + expLen - 1
                marked(mark) ==
                    exponent(mark, IF at(mark + 1) \in {"+", "-"} THEN mark + 2 ELSE mark + 1,
                             run(IF at(mark + 1) \in {"+", "-"} THEN mark + 2 ELSE mark + 1))
                fraction(point, fracLen) ==
                    CASE at(point) = "." /\ fracLen = 0 -> 0
                      [] OTHER -> marked(IF at(point) = "." THEN point + 1 + fracLen ELSE point)
                integer(start, intLen) ==
                    IF intLen = 0 THEN 0
                    ELSE fraction(start + intLen, run(start + intLen + 1))
                signed(start) == integer(start, IF at(start) = "0" THEN 1 ELSE run(start))
            IN signed(IF at(1) = "-" THEN 2 ELSE 1)
        RECURSIVE string(_, _)
        string(cs, acc) ==
            LET hexOf(i) == hexValue(cs[i])
                \* the number of characters the next character of the
                \* string is written with, 0 when there is none
                width ==
                    CASE cs = <<>> -> 0
                      [] Head(cs) \in {fromCharCode(n) : n \in 0..31} -> 0
                      [] Head(cs) # "\\" -> 1
                      [] Len(cs) < 2 -> 0
                      [] cs[2] \in {"\"", "\\", "/", "b", "f", "n", "r", "t"} -> 2
                      [] cs[2] = "u" /\ Len(cs) >= 6 /\ \A i \in 3..6 : hexOf(i) >= 0 -> 6
                      [] OTHER -> 0
                written(w) ==
                    CASE w = 1 -> Head(cs)
                      [] w = 6 -> fromCharCode(4096 * hexOf(3) + 256 * hexOf(4)
                                           + 16 * hexOf(5) + hexOf(6))
                      [] cs[2] = "b" -> fromCharCode(8)
                      [] cs[2] = "f" -> "\f"
                      [] cs[2] = "n" -> "\n"
                      [] cs[2] = "r" -> "\r"
                      [] cs[2] = "t" -> "\t"
                      [] OTHER -> cs[2]
                next(w) ==
                    IF w = 0 THEN [ok |-> FALSE, s |-> <<>>, rest |-> <<>>]
                    ELSE string(drop(cs, w), Append(acc, written(w)))
            IN IF cs # <<>> /\ Head(cs) = "\""
               THEN [ok |-> TRUE, s |-> acc, rest |-> Tail(cs)]
               ELSE next(width)
        node(j, val, items) == [j |-> j, val |-> val, items |-> items]
        failed == [mode |-> "fail", rest |-> <<>>, stack |-> <<>>,
                   node |-> node("null", Null, <<>>)]
        after(nd, rest, stack) ==
            [mode |-> "after", rest |-> rest, stack |-> stack, node |-> nd]
        expect(mode, rest, stack) ==
            [mode |-> mode, rest |-> rest, stack |-> stack, node |-> node("null", Null, <<>>)]
        \* String(array): the elements joined by ',', null as ''
        joined(items) ==
            IF \E k \in 1..Len(items) : ToPrimitiveThrows(items[k].val) THEN ArrThrowing
            ELSE Arr(Join([k \in 1..Len(items) |->
                             IF items[k].j = "null" THEN <<>> ELSE String(items[k].val)], ","))
        ownKeys(items) == ObjWith([k \in 1..Len(items) |-> items[k].key])
        added(frame, nd) ==
            IF frame.array THEN Append(frame.items, nd)
            ELSE defineProperty(frame.items, frame.key, nd)
        inside(cs, frame, items, stack) ==
            CASE cs = <<>> -> failed
              [] Head(cs) = "," ->
                    expect(IF frame.array THEN "value" ELSE "key", Tail(cs),
                           <<[frame EXCEPT !.items = items]>> \o stack)
              [] Head(cs) = "]" /\ frame.array ->
                    after(node("array", joined(items), items), Tail(cs), stack)
              [] Head(cs) = "}" /\ ~frame.array ->
                    after(node("object", ownKeys(items), items), Tail(cs), stack)
              [] OTHER -> failed
        opened(frame, inner, stack) ==
            CASE inner # <<>> /\ Head(inner) = "]" /\ frame.array ->
                    after(node("array", Arr(<<>>), <<>>), Tail(inner), stack)
              [] inner # <<>> /\ Head(inner) = "}" /\ ~frame.array ->
                    after(node("object", Obj, <<>>), Tail(inner), stack)
              [] OTHER -> expect(IF frame.array THEN "value" ELSE "key", inner, <<frame>> \o stack)
        colon(key, cs, stack) ==
            IF cs # <<>> /\ Head(cs) = ":"
            THEN expect("value", Tail(cs),
                        <<[Head(stack) EXCEPT !.key = AsName(key.s)]>> \o Tail(stack))
            ELSE failed
        quoted(mode, str, stack) ==
            CASE ~str.ok -> failed
              [] mode = "key" -> colon(str, skip(str.rest), stack)
              [] OTHER -> after(node("scalar", Str(str.s), <<>>), str.rest, stack)
        starts(cs, name) == Len(cs) >= Len(name) /\ SubSeq(cs, 1, Len(name)) = Chars(name)
    IN IF s.mode \in {"done", "fail"} THEN s
       ELSE JsonRun(
               CASE s.mode = "after" /\ s.stack # <<>> ->
                       inside(skip(s.rest), Head(s.stack), added(Head(s.stack), s.node),
                              Tail(s.stack))
                 [] s.mode = "after" /\ skip(s.rest) = <<>> ->
                       [mode |-> "done", rest |-> <<>>, stack |-> <<>>, node |-> s.node]
                 [] s.mode = "after" \/ skip(s.rest) = <<>> -> failed
                 [] Head(skip(s.rest)) = "\"" ->
                       quoted(s.mode, string(Tail(skip(s.rest)), <<>>), s.stack)
                 [] s.mode = "key" -> failed
                 [] starts(skip(s.rest), "null") ->
                       after(node("null", Null, <<>>), drop(skip(s.rest), 4), s.stack)
                 [] starts(skip(s.rest), "true") ->
                       after(node("scalar", Bool(TRUE), <<>>), drop(skip(s.rest), 4), s.stack)
                 [] starts(skip(s.rest), "false") ->
                       after(node("scalar", Bool(FALSE), <<>>), drop(skip(s.rest), 5), s.stack)
                 [] Head(skip(s.rest)) \in {"[", "{"} ->
                       opened([array |-> Head(skip(s.rest)) = "[", items |-> <<>>, key |-> ""],
                              skip(Tail(skip(s.rest))), s.stack)
                 [] numberLength(skip(s.rest)) = 0 -> failed
                 [] OTHER ->
                       after(node("scalar",
                                  StringToNumber(SubSeq(skip(s.rest), 1,
                                                        numberLength(skip(s.rest)))),
                                  <<>>),
                             drop(skip(s.rest), numberLength(skip(s.rest))), s.stack))

JsonText(text) ==
    LET result(s) == [ok |-> s.mode = "done", node |-> s.node]
    IN result(JsonRun([mode |-> "value", rest |-> text, stack |-> <<>>,
                       node |-> [j |-> "null", val |-> Null, items |-> <<>>]]))

(***************************************************************************)
(* JSON.parse(jsonString): the parsed node as a document; the document     *)
(* k = "SyntaxError" stands for the SyntaxError thrown on a text that is   *)
(* not JSON.                                                               *)
(*   toRecord - a parsed node as an element of the source sequence         *)
(***************************************************************************)
JSONparse(source) ==
    LET toRecord(nd) ==
            CASE nd.j = "object" ->
                    ObjectRecord([k \in 1..Len(nd.items) |->
                        [key |-> nd.items[k].key, val |-> nd.items[k].val.val]])
              [] nd.j = "array" ->
                    ArrayRecord([k \in 1..Len(nd.items) |-> nd.items[k].val])
              [] nd.j = "null" -> NullRecord
              [] OTHER -> ScalarRecord(nd.val)
        elements(nodes) == [k \in 1..Len(nodes) |-> toRecord(nodes[k])]
        document(parsed) ==
            CASE ~parsed.ok -> [k |-> "SyntaxError", items |-> <<>>, entries |-> <<>>]
              [] parsed.node.j = "array" -> ArrayDoc(elements(parsed.node.items))
              [] parsed.node.j = "object" ->
                    ObjectDoc([k \in 1..Len(parsed.node.items) |->
                        IF parsed.node.items[k].val.j = "array"
                        THEN ArrayEntry(parsed.node.items[k].key,
                                        elements(parsed.node.items[k].val.items))
                        ELSE ValueEntry(parsed.node.items[k].key,
                                        parsed.node.items[k].val.val)])
              [] parsed.node.j = "null" -> NullDoc
              [] OTHER -> ScalarDoc(parsed.node.val)
    IN IF source.kind = "json" THEN source.doc ELSE document(JsonText(source.text))

\* JSON.parse throws a SyntaxError
JSONparseThrows(source) == JSONparse(source).k = "SyntaxError"

\* parseJSON throws: JSON.parse's SyntaxError, or Object.keys(null)'s TypeError
parseJSONThrows(source) == JSONparse(source).k \in {"SyntaxError", "null"}

\* Mutant: the last array-valued key is used
parseJSONLastArray(source) ==
    LET arrayKeys(parsed) == {k \in 1..Len(parsed.entries) : parsed.entries[k].isArray}
        sequence(parsed, arrays) ==
            CASE parsed.k = "array" -> parsed.items
              [] parsed.k = "object" /\ arrays # {} ->
                    parsed.entries[CHOOSE k \in arrays : \A j \in arrays : k >= j].items
              [] parsed.k = "object" ->
                    <<ObjectRecord([k \in 1..Len(parsed.entries) |->
                        [key |-> parsed.entries[k].key, val |-> parsed.entries[k].val]])>>
              [] OTHER -> <<ScalarRecord(parsed.val)>>
        wrapped(parsed) == sequence(parsed, arrayKeys(parsed))
    IN wrapped(JSONparse(source))

\* parseJSON: the array itself, else the value of the first array-valued
\* key of an object, else the whole value as the only record
parseJSON(source) ==
    LET arrayKeys(parsed) == {k \in 1..Len(parsed.entries) : parsed.entries[k].isArray}
        sequence(parsed, arrays) ==
            CASE parsed.k = "array" -> parsed.items
              [] parsed.k = "object" /\ arrays # {} ->
                    parsed.entries[CHOOSE k \in arrays : \A j \in arrays : k <= j].items
              [] parsed.k = "object" ->
                    <<ObjectRecord([k \in 1..Len(parsed.entries) |->
                        [key |-> parsed.entries[k].key, val |-> parsed.entries[k].val]])>>
              [] OTHER -> <<ScalarRecord(parsed.val)>>
        wrapped(parsed) == sequence(parsed, arrayKeys(parsed))
    IN wrapped(JSONparse(source))

parseSourceFileThrows(sourceFile, sourceType) ==
    CASE sourceType = "csv" -> FALSE
      [] sourceType = "json" -> parseJSONThrows(sourceFile)
      [] OTHER -> TRUE

\* Mutant: a sourceType other than csv is read as JSON
parseSourceFileErrorLenient(sourceFile, sourceType) ==
    LET thrown(parsed) ==
            CASE parsed.k = "SyntaxError" -> "SyntaxError"
              [] parsed.k = "null" -> "TypeError: Cannot convert undefined or null to object"
              [] OTHER -> ""
    IN CASE sourceType = "csv" -> ""
         [] OTHER -> thrown(JSONparse(sourceFile))

\* the error parseSourceFile throws ("" when it returns): JSON.parse's
\* SyntaxError, the TypeError of Object.keys(null), or the error of line 590
parseSourceFileError(sourceFile, sourceType) ==
    LET thrown(parsed) ==
            CASE parsed.k = "SyntaxError" -> "SyntaxError"
              [] parsed.k = "null" -> "TypeError: Cannot convert undefined or null to object"
              [] OTHER -> ""
    IN CASE sourceType = "csv" -> ""
         [] sourceType = "json" -> thrown(JSONparse(sourceFile))
         [] OTHER -> "Unsupported source type: " \o sourceType

parseSourceFile(sourceFile, sourceType) ==
    IF sourceType = "csv" THEN parseCSV(sourceFile.text) ELSE parseJSON(sourceFile)

(***************************************************************************)
(* Candidate configuration (req.body.config), as JSON: every scalar field  *)
(* carries its JSON type ty and, for strings and booleans, its value v.    *)
(***************************************************************************)
CStr(v) == [ty |-> "string", v |-> v]
CBool(b) == [ty |-> "boolean", v |-> IF b THEN "true" ELSE "false"]
CNumber == [ty |-> "number", v |-> "1"]
CMissing == [ty |-> "undefined", v |-> ""]

\* mapping.transform when the key is absent
Absent == "undefined"

SourceTypes == <<"csv", "json">>
Repositories == <<"users", "products", "orders">>
Transforms == <<"none", "uppercase", "lowercase", "trim", "number">>

(***************************************************************************)
(* Target Schema Registry: the object as the module builds it.  While the  *)
(* server runs the object is the variable registry, which the handler of   *)
(* src/api/server.js reads at lines 752-757.                               *)
(***************************************************************************)
REPOSITORY_SCHEMA ==
    [users |-> [required |-> <<"id", "email", "name">>,
                optional |-> <<"phone", "address", "role">>],
     products |-> [required |-> <<"sku", "name", "price">>,
                   optional |-> <<"description", "category", "stock">>],
     orders |-> [required |-> <<"orderId", "customerId", "total">>,
                 optional |-> <<"status", "createdAt", "items">>]]

(***************************************************************************)
(* Mapping Configuration Validator: shape                                  *)
(***************************************************************************)
Members(seq) == {seq[k] : k \in 1..Len(seq)}

Issue(path, kind, subject, options) ==
    [path |-> path, message |-> [kind |-> kind, subject |-> subject, options |-> options]]

\* z.string()
stringIssues(path, cv) ==
    IF cv.ty = "string" THEN <<>> ELSE <<Issue(path, "invalid_type", "string", <<>>)>>

\* Mutant: the option accepts any value
booleanIssuesAny(path, cv) == <<>>

\* z.boolean()
booleanIssues(path, cv) ==
    IF cv.ty = "boolean" THEN <<>> ELSE <<Issue(path, "invalid_type", "boolean", <<>>)>>

\* z.enum([...]): a value that is not a string is an invalid_type issue
\* expecting the joined members; a string outside the enum is an
\* invalid_enum_value issue carrying the members (joinValues is
\* util.joinValues: 'csv' | 'json')
enumIssues(path, cv, options) ==
    LET RECURSIVE joinValues(_)
        joinValues(names) ==
            IF Len(names) = 1 THEN "'" \o names[1] \o "'"
            ELSE "'" \o Head(names) \o "' | " \o joinValues(Tail(names))
    IN CASE cv.ty # "string" -> <<Issue(path, "invalid_type", joinValues(options), <<>>)>>
         [] cv.v \in Members(options) -> <<>>
         [] OTHER -> <<Issue(path, "invalid_enum_value", cv.v, options)>>

\* z.enum([...]).optional()
optionalEnumIssues(path, cv, options) ==
    IF cv.ty = "undefined" THEN <<>> ELSE enumIssues(path, cv, options)

mappingIssues(mapping, idx) ==
    LET at == "fieldMappings." \o ToString(idx - 1) \o "."
    IN stringIssues(at \o "sourceField", mapping.sourceField)
       \o stringIssues(at \o "targetField", mapping.targetField)
       \o optionalEnumIssues(at \o "transform", mapping.transform, Transforms)

RECURSIVE fieldMappingsIssues(_, _)
fieldMappingsIssues(fieldMappings, idx) ==
    IF idx > Len(fieldMappings) THEN <<>>
    ELSE mappingIssues(fieldMappings[idx], idx) \o fieldMappingsIssues(fieldMappings, idx + 1)

\* Mutant: validation stops at the first violation
MappingConfigSchemaIssuesFirst(config) ==
    LET all == stringIssues("name", config.name)
               \o enumIssues("sourceType", config.sourceType, SourceTypes)
               \o enumIssues("targetRepository", config.targetRepository, Repositories)
               \o stringIssues("idField", config.idField)
               \o fieldMappingsIssues(config.fieldMappings, 1)
               \o booleanIssues("options.skipEmptyFields", config.options.skipEmptyFields)
               \o booleanIssues("options.validateRequired", config.options.validateRequired)
    IN IF all = <<>> THEN <<>> ELSE <<all[1]>>

\* MappingConfigSchema.safeParse(config).error.issues, every violation in
\* schema order
MappingConfigSchemaIssues(config) ==
    stringIssues("name", config.name)
    \o enumIssues("sourceType", config.sourceType, SourceTypes)
    \o enumIssues("targetRepository", config.targetRepository, Repositories)
    \o stringIssues("idField", config.idField)
    \o fieldMappingsIssues(config.fieldMappings, 1)
    \o booleanIssues("options.skipEmptyFields", config.options.skipEmptyFields)
    \o booleanIssues("options.validateRequired", config.options.validateRequired)

\* MappingConfigSchema.safeParse(config).data
MappingConfigSchemaData(config) ==
    [name |-> config.name.v,
     sourceType |-> config.sourceType.v,
     targetRepository |-> config.targetRepository.v,
     idField |-> config.idField.v,
     fieldMappings |-> [k \in 1..Len(config.fieldMappings) |->
        [sourceField |-> config.fieldMappings[k].sourceField.v,
         targetField |-> config.fieldMappings[k].targetField.v,
         transform |-> IF config.fieldMappings[k].transform.ty = "undefined"
                       THEN Absent ELSE config.fieldMappings[k].transform.v]],
     options |-> [skipEmptyFields |-> config.options.skipEmptyFields.v = "true",
                  validateRequired |-> config.options.validateRequired.v = "true"]]

(***************************************************************************)
(* Mapping Configuration Validator: target coverage                        *)
(***************************************************************************)
mappedTargetFields(config) ==
    [k \in 1..Len(config.fieldMappings) |-> config.fieldMappings[k].targetField]

\* Mutant: the identifier is not exempt from the coverage check
requiredWithId(schema) == schema.required

\* repoSchema.required.filter(f => f !== 'id')
requiredWithoutId(schema) ==
    LET notId(f) == f # "id"
    IN SelectSeq(schema.required, notId)

missingRequired(schema, config) ==
    LET unmapped(f) == f \notin Members(mappedTargetFields(config))
    IN SelectSeq(requiredWithoutId(schema), unmapped)

coverageErrors(schema, config) ==
    LET missing == missingRequired(schema, config)
    IN [k \in 1..Len(missing) |->
          Issue("fieldMappings", "Missing required target field", missing[k], <<>>)]

(***************************************************************************)
(* Transform Engine: the switch on mapping.transform                       *)
(***************************************************************************)
\* the `number` case pushes an error when Number(value) is NaN
transformFails(value, transform) ==
    transform = "number" /\ isNaN(Number(value))

\* the value left in `value` after the switch, or TypeError when String(value)
\* or Number(value) throws
applyTransform(value, transform) ==
    LET numberOrZero(converted) == IF isNaN(converted) THEN Num(0) ELSE converted
    IN CASE transform \in {"uppercase", "lowercase", "trim"} /\ ToPrimitiveThrows(value) ->
                TypeError
         [] transform = "uppercase" -> Str(toUpperCase(String(value)))
         [] transform = "lowercase" -> Str(toLowerCase(String(value)))
         [] transform = "trim" -> Str(trim(String(value)))
         [] transform = "number" -> numberOrZero(Number(value))
         [] OTHER -> value

(***************************************************************************)
(* Record Importer: one iteration of the record loop                       *)
(***************************************************************************)
MissingIdError(idField) == [kind |-> "Missing ID field", field |-> idField]
NotNumberError(sourceField) ==
    [kind |-> "could not be converted to number", field |-> sourceField]

\* sourceRecord[key].  An object: its own or inherited property.  An array:
\* its length, its element at an array index, or a member of
\* Array.prototype.  A string: its length, its character at an index, or a
\* member of String.prototype.  A number or boolean: a member of its
\* prototype.
readField(sourceRecord, key) ==
    LET position == IF IsArrayIndex(key) /\ Len(key) < 10 THEN CharsToNat(Chars(key)) ELSE -1
    IN CASE sourceRecord.k = "object" -> Get(sourceRecord.entries, key)
         [] sourceRecord.k = "array" ->
                CASE key = "length" -> Num(Len(sourceRecord.items))
                  [] position >= 0 /\ position < Len(sourceRecord.items) ->
                        sourceRecord.items[position + 1]
                  [] OTHER -> inherited("Array", key)
         [] sourceRecord.k = "scalar" /\ sourceRecord.val.t = "string" ->
                CASE key = "length" -> Num(Len(sourceRecord.val.s))
                  [] position >= 0 /\ position < Len(sourceRecord.val.s) ->
                        Str(<<sourceRecord.val.s[position + 1]>>)
                  [] OTHER -> inherited("String", key)
         [] sourceRecord.k = "scalar" /\ sourceRecord.val.t = "boolean" ->
                inherited("Boolean", key)
         [] sourceRecord.k = "scalar" -> inherited("Number", key)
         [] OTHER -> Undefined

\* sourceRecord[key] throws a TypeError when the element is null
readThrows(sourceRecord) == sourceRecord.k = "null"

\* Mutant: a missing identifier is not recorded as an error
idErrorsNone(recordId, idField) == <<>>

\* if (recordId === undefined || recordId === null || recordId === '') push
idErrors(recordId, idField) ==
    IF IsEmpty(recordId) THEN <<MissingIdError(idField)>> ELSE <<>>

\* `unknown-${index}`
placeholderId(idx) == <<"u","n","k","n","o","w","n","-">> \o NatToChars(idx)

\* String(recordId || `unknown-${index}`), TypeError's characters when
\* String throws
idString(recordId, idx) ==
    IF Truthy(recordId) THEN String(recordId) ELSE placeholderId(idx)

\* Mutant: only the empty string counts as empty
skipsMappingEmptyStringOnly(value, skipEmptyFields) == value = Str(<<>>) /\ skipEmptyFields

\* the `continue` of the mapping loop
skipsMapping(value, skipEmptyFields) == IsEmpty(value) /\ skipEmptyFields

\* An assignment to `key` of an object that has proto as prototype and no
\* own property of that name throws a TypeError (the module is strict
\* code): the property found on the prototype chain is a data property
\* that is not writable (of a function its name and length, of a
\* constructor its prototype, of Number its constants, of
\* String.prototype its length), or one of the accessors caller and
\* arguments of Function.prototype, whose setter throws
readOnly(proto, key) ==
    CASE proto.t = "function" ->
            \/ key \in {"name", "length", "caller", "arguments"}
            \/ /\ key = "prototype"
               /\ proto.s \in {Chars("Object"), Chars("String"), Chars("Number"),
                               Chars("Boolean"), Chars("Array")}
            \/ /\ proto.s = Chars("Number")
               /\ key \in {"MAX_VALUE", "MIN_VALUE", "NaN", "NEGATIVE_INFINITY",
                           "POSITIVE_INFINITY", "EPSILON", "MAX_SAFE_INTEGER",
                           "MIN_SAFE_INTEGER"}
      [] proto.t = "prototype" -> proto.s = Chars("String") /\ key = "length"
      [] OTHER -> FALSE

\* data[key] = val on acc = [data, proto, recordErrors, thrown], proto being
\* the prototype of data (Object.prototype at first, null once it has been
\* removed): acc after the assignment.  An own property is written.  Else
\* the prototype chain decides: a read-only property throws; the accessor
\* __proto__ of Object.prototype, unless the chain does not reach it or a
\* nested object with an own property __proto__ stands before it, makes
\* an object or null the new prototype and ignores any other value; in
\* every other case the property is created on data.
assign(acc, key, val) ==
    CASE ~HasKey(acc.data, key) /\ readOnly(acc.proto, key) -> [acc EXCEPT !.thrown = TRUE]
      [] /\ ~HasKey(acc.data, key)
         /\ key = "__proto__"
         /\ acc.proto # Null
         /\ ~(acc.proto.t = "object" /\ \E k \in 1..Len(acc.proto.s) : acc.proto.s[k] = key) ->
            IF val.t \in {"object", "array", "function", "prototype", "null"}
            THEN [acc EXCEPT !.proto = val] ELSE acc
      [] OTHER -> [acc EXCEPT !.data = defineProperty(@, key, val)]

\* Mutant: an earlier write to the same target field is kept
applyMappingFirstWins(acc, value, mapping, skipEmptyFields) ==
    LET stored(pushed, val) ==
            CASE val = TypeError -> [acc EXCEPT !.thrown = TRUE]
              [] HasKey(acc.data, mapping.targetField) -> pushed
              [] OTHER -> assign(pushed, mapping.targetField, val)
    IN IF acc.thrown \/ skipsMapping(value, skipEmptyFields) THEN acc
       ELSE stored([acc EXCEPT !.recordErrors =
                       IF value # Undefined /\ value # Null
                          /\ transformFails(value, mapping.transform)
                       THEN Append(@, NotNumberError(mapping.sourceField)) ELSE @],
                   IF value # Undefined /\ value # Null
                   THEN applyTransform(value, mapping.transform) ELSE value)

\* one iteration of `for (const mapping of validConfig.fieldMappings)` on
\* acc = [data, proto, recordErrors, thrown], value being
\* sourceRecord[mapping.sourceField]: the `continue`, the switch, the error
\* pushed by the `number` case and the assignment to data (stored: val is
\* what the switch leaves in `value`, pushed is acc with that error).  Once
\* the switch or the assignment has thrown, nothing more is done.
applyMapping(acc, value, mapping, skipEmptyFields) ==
    LET stored(pushed, val) ==
            IF val = TypeError THEN [acc EXCEPT !.thrown = TRUE]
            ELSE assign(pushed, mapping.targetField, val)
    IN IF acc.thrown \/ skipsMapping(value, skipEmptyFields) THEN acc
       ELSE stored([acc EXCEPT !.recordErrors =
                       IF value # Undefined /\ value # Null
                          /\ transformFails(value, mapping.transform)
                       THEN Append(@, NotNumberError(mapping.sourceField)) ELSE @],
                   IF value # Undefined /\ value # Null
                   THEN applyTransform(value, mapping.transform) ELSE value)

\* the mapping loop from the k-th mapping on
RECURSIVE applyMappings(_, _, _, _, _)
applyMappings(acc, sourceRecord, fieldMappings, skipEmptyFields, k) ==
    IF k > Len(fieldMappings) THEN acc
    ELSE applyMappings(applyMapping(acc, readField(sourceRecord, fieldMappings[k].sourceField),
                                    fieldMappings[k], skipEmptyFields),
                       sourceRecord, fieldMappings, skipEmptyFields, k + 1)

\* the state of the mapping loop before its first iteration: the object
\* literal with the given own properties, the errors pushed so far
started(data, recordErrors) ==
    [data |-> data, proto |-> Prototype("Object"), recordErrors |-> recordErrors,
     thrown |-> FALSE]

\* _meta.errors: recordErrors.length > 0 ? recordErrors : undefined
metaErrors(recordErrors) ==
    [defined |-> Len(recordErrors) > 0, list |-> recordErrors]

\* the standardizedRecord built for sourceRecords[idx]: recordId is
\* sourceRecord[validConfig.idField], built the data and recordErrors left
\* by the mapping loop.  It is TypeError when the iteration throws one: the
\* element is null, the switch or the assignment of a mapping throws, or
\* String(recordId) does.
standardizedRecord(sourceRecord, idx, config, stamp) ==
    LET record(recordId, built) ==
            IF \/ readThrows(sourceRecord) \/ built.thrown
               \/ idString(recordId, idx) = TypeError.s
            THEN TypeError
            ELSE [id |-> idString(recordId, idx),
                  type |-> config.targetRepository,
                  data |-> built.data,
                  meta |-> [sourceIndex |-> idx,
                            importedAt |-> stamp,
                            success |-> Len(built.recordErrors) = 0,
                            errors |-> metaErrors(built.recordErrors)]]
    IN record(readField(sourceRecord, config.idField),
              applyMappings(
                 started(<<>>, idErrors(readField(sourceRecord, config.idField),
                                        config.idField)),
                 sourceRecord, config.fieldMappings, config.options.skipEmptyFields, 1))

\* Mutant: the filter keeps every record
successCountAll(recs) == Len(recs)

\* records.filter(r => r._meta.success).length
successCount(recs) == Cardinality({k \in 1..Len(recs) : recs[k].meta.success})

importSummary(sourceRecs, recs, config, stamp) ==
    [totalRecords |-> Len(sourceRecs),
     successfulImports |-> successCount(recs),
     failedImports |-> Len(sourceRecs) - successCount(recs),
     targetRepository |-> config.targetRepository,
     importedAt |-> stamp]

(***************************************************************************)
(* Requests the model submits.                                             *)
(***************************************************************************)
SeqsUpTo(S, n) == UNION {[1..k -> S] : k \in 0..n}

Mapping(sourceField, targetField, transform) ==
    [sourceField |-> CStr(sourceField),
     targetField |-> CStr(targetField),
     transform |-> IF transform = Absent THEN CMissing ELSE CStr(transform)]

Candidate(sourceType, targetRepository, idField, fieldMappings, skipEmptyFields, validateRequired) ==
    [name |-> CStr("import"),
     sourceType |-> CStr(sourceType),
     targetRepository |-> CStr(targetRepository),
     idField |-> CStr(idField),
     fieldMappings |-> fieldMappings,
     options |-> [skipEmptyFields |-> CBool(skipEmptyFields),
                  validateRequired |-> CBool(validateRequired)]]

Request(config, sourceFile) == [hasConfig |-> TRUE, config |-> config, sourceFile |-> sourceFile]

\* Field mappings of the transform-centred requests: every transform on
\* field a, two entries that share a target, two targets.
MappingChoices ==
    {Mapping("a", "email", tr) : tr \in {Absent} \cup Members(Transforms)}
    \cup {Mapping("b", "email", "number"), Mapping("b", "name", Absent)}

\* Source records of the JSON arrays
RecordChoices ==
    {ObjectRecord(<<[key |-> "i", val |-> Str(<<"7">>)], [key |-> "a", val |-> Str(<<"a","B">>)],
                    [key |-> "b", val |-> Str(<<"x">>)]>>),
     ObjectRecord(<<[key |-> "a", val |-> Str(<<" ","7"," ">>)], [key |-> "b", val |-> Str(<<"x">>)]>>),
     ObjectRecord(<<[key |-> "i", val |-> Num(0)], [key |-> "a", val |-> Null],
                    [key |-> "b", val |-> Str(<<>>)]>>),
     ObjectRecord(<<[key |-> "i", val |-> Str(<<>>)], [key |-> "a", val |-> Str(<<" ">>)],
                    [key |-> "b", val |-> Num(5)]>>),
     ObjectRecord(<<[key |-> "i", val |-> Bool(FALSE)], [key |-> "a", val |-> Str(<<>>)]>>),
     ObjectRecord(<<[key |-> "i", val |-> Num(12)], [key |-> "a", val |-> Bool(TRUE)],
                    [key |-> "b", val |-> Str(<<"7">>)]>>),
     NullRecord,
     ScalarRecord(Num(40))}

JsonArraySources == {JsonSource(ArrayDoc(items)) : items \in SeqsUpTo(RecordChoices, MaxRecords)}

OneRecord == CHOOSE r \in RecordChoices : r.k = "object" /\ Len(r.entries) = 3 /\ r.entries[1].val = Str(<<"7">>)

\* Documents that are not arrays
JsonOtherSources ==
    {JsonSource(ObjectDoc(<<ValueEntry("meta", Obj), ArrayEntry("items", <<OneRecord>>),
                            ArrayEntry("more", <<OneRecord, OneRecord>>)>>)),
     JsonSource(ObjectDoc(<<ValueEntry("i", Str(<<"7">>)), ValueEntry("a", Str(<<"a","B">>))>>)),
     JsonSource(ObjectDoc(<<ArrayEntry("items", <<>>)>>)),
     JsonSource(ObjectDoc(<<>>)),
     JsonSource(ScalarDoc(Num(40))),
     JsonSource(NullDoc)}

\* CSV text: a header line and up to MaxRecords further lines
HeaderLines ==
    {<<"i", ",", "a", ",", "b">>,
     <<"\n", " ", "i", " ", ",", "a", ",", " ", "b", " ">>}
RowLines ==
    {<<"7", ",", "a", "B", ",", "x">>,
     <<",", "7">>,
     <<"8", ",", " ", "7", " ", ",">>,
     <<>>,
     <<"9", ",", "k", ",", "5", ",", "z">>}
\* CSV text whose header row names a field twice
RepeatedHeaderSources ==
    {TextSource(<<"a", ",", "i", ",", "a", "\n", "x", ",", "7", ",", "y">>),
     TextSource(<<"a", ",", "i", ",", "a", "\n", "x", ",", "7">>)}
CsvSources ==
    {TextSource(Join(<<h>> \o rows, "\n")) : h \in HeaderLines, rows \in SeqsUpTo(RowLines, MaxRecords)}
    \cup RepeatedHeaderSources
    \cup {TextSource(<<" ", "\n", " ">>)}

\* The configurations submitted with every source
SourceCentredConfigs(sourceType) ==
    {Candidate(sourceType, "users", "i",
               <<Mapping("a", "email", tr), Mapping("b", "name", Absent)>>, skip, TRUE) :
        tr \in {"trim", "number"}, skip \in BOOLEAN}

\* The sources submitted with every list of field mappings
FewSources ==
    {JsonSource(ArrayDoc(<<
        ObjectRecord(<<[key |-> "i", val |-> Str(<<"7">>)], [key |-> "a", val |-> Str(<<" ","a","B">>)],
                       [key |-> "b", val |-> Str(<<>>)]>>),
        ObjectRecord(<<[key |-> "a", val |-> Str(<<"7"," ">>)], [key |-> "b", val |-> Null]>>)>>)),
     JsonSource(ArrayDoc(<<
        ObjectRecord(<<[key |-> "a", val |-> Str(<<"a","B">>)], [key |-> "b", val |-> Str(<<"x">>)]>>)>>)),
     TextSource(<<"i", ",", "a", ",", "b", "\n", "7", ",", "\n", "0", ",", "k", ",", "8">>)}

SourceTypeFor(source) == IF source.kind = "json" THEN "json" ELSE "csv"

MappingCentredRequests ==
    {Request(Candidate(SourceTypeFor(src), "users", "i", fm, skip, vr), src) :
        fm \in SeqsUpTo(MappingChoices, MaxMappings), skip \in BOOLEAN, vr \in BOOLEAN,
        src \in FewSources}

SourceCentredRequests ==
    {Request(c, src) : c \in SourceCentredConfigs("json"), src \in JsonArraySources \cup JsonOtherSources}
    \cup {Request(c, src) : c \in SourceCentredConfigs("csv"), src \in CsvSources}
    \cup {Request(Candidate("json", "users", "i",
                            <<Mapping("a", "email", Absent), Mapping("b", "name", Absent)>>, FALSE, TRUE),
                  src) : src \in CsvSources \cup {TextSource(<<" ", "4", "0">>), TextSource(<<"0", "4">>)}}

\* Coverage: every sub-list of the required fields of every repository
RECURSIVE SubLists(_)
SubLists(seq) ==
    IF seq = <<>> THEN {<<>>}
    ELSE LET rest == SubLists(Tail(seq))
         IN rest \cup {<<Head(seq)>> \o r : r \in rest}

CoverageRequests ==
    {Request(Candidate("csv", repo, "i",
                       [k \in 1..Len(fields) |-> Mapping("a", fields[k], Absent)], FALSE, vr),
             TextSource(<<"i", ",", "a", "\n", "7", ",", "k">>)) :
        repo \in Members(Repositories), vr \in BOOLEAN,
        fields \in UNION {SubLists(REPOSITORY_SCHEMA[r].required) : r \in Members(Repositories)}}

\* Candidates with shape violations: any non-empty set of five defects
Defects == {"name", "sourceType", "targetRepository", "transform", "sourceField", "skipEmptyFields"}
Defective(D) ==
    [name |-> IF "name" \in D THEN CMissing ELSE CStr("import"),
     sourceType |-> IF "sourceType" \in D THEN CStr("xml") ELSE CStr("csv"),
     targetRepository |-> IF "targetRepository" \in D THEN CStr("customers") ELSE CStr("users"),
     idField |-> CStr("i"),
     fieldMappings |-> <<Mapping("a", "email", IF "transform" \in D THEN "reverse" ELSE "trim")>>
                       \o (IF "sourceField" \in D
                           THEN <<[Mapping("b", "name", Absent) EXCEPT !.sourceField = CMissing]>>
                           ELSE <<>>),
     options |-> [skipEmptyFields |-> IF "skipEmptyFields" \in D THEN CStr("yes") ELSE CBool(TRUE),
                  validateRequired |-> CBool(TRUE)]]

ShapeRequests ==
    {Request(Defective(D), TextSource(<<"i", ",", "a", "\n", "7", ",", "k">>)) :
        D \in (SUBSET Defects) \ {{}}}

\* Requests the handler answers with status 400
BadRequests ==
    LET c == Candidate("csv", "users", "i", <<Mapping("a", "email", Absent), Mapping("b", "name", Absent)>>, TRUE, TRUE)
    IN {[hasConfig |-> FALSE, config |-> c, sourceFile |-> TextSource(<<"i">>)],
        Request(c, AbsentSource),
        Request(c, TextSource(<<>>))}

\* Property names with a meaning of their own: members of the prototypes as
\* idField and sourceField, __proto__ and an array index as targetField and
\* as CSV header; numbers written with sign, point, exponent and radix; JSON
\* given as text; elements that are strings and arrays
NamedMappings ==
    {<<Mapping("a", "__proto__", "number")>>,
     <<Mapping("b", "__proto__", "number")>>,
     <<Mapping("b", "__proto__", Absent), Mapping("a", "__proto__", "trim")>>,
     <<Mapping("a", "b", "uppercase"), Mapping("a", "1", "number")>>,
     <<Mapping("toString", "email", "uppercase"), Mapping("__proto__", "name", "number")>>,
     <<Mapping("1", "email", "number"), Mapping("length", "name", Absent)>>}
NamedSources ==
    {JsonSource(ArrayDoc(<<
        ObjectRecord(<<[key |-> "1", val |-> Str(<<"0","x","1","0">>)],
                       [key |-> "i", val |-> Str(<<"7">>)],
                       [key |-> "a", val |-> Str(<<"-","1",".","5">>)],
                       [key |-> "b", val |-> Null]>>),
        ScalarRecord(Str(<<"a","b">>)),
        ArrayRecord(<<Num(1), Str(<<"1","e","3">>)>>)>>)),
     TextSource(Chars("i,__proto__,1,a\n7,k,1e3,+.5\n,,\f,e")),
     TextSource(Chars("[{\"i\":0,\"a\":\"x\"},[\"8\"],true]")),
     TextSource(Chars("{\"b\":[],\"1\":[5e-1]}")),
     TextSource(Chars(" true ")),
     TextSource(Chars("null")),
     TextSource(Chars("1E3"))}
IsJsonText(source) ==
    source.kind = "json" \/ (source.text # <<>> /\ Head(source.text) \in {"[", "{", " ", "n", "1"})
NamedRequests ==
    {Request(Candidate(IF IsJsonText(src) THEN "json" ELSE "csv", "users", id, fm, skip, FALSE), src) :
        id \in {"i", "constructor", "length", "0"}, fm \in NamedMappings, skip \in BOOLEAN,
        src \in NamedSources}
    \cup {Request([Candidate("csv", "users", "i", <<Mapping("a", "email", Absent)>>, TRUE, TRUE)
                    EXCEPT !.sourceType = st],
                   TextSource(<<"i", ",", "a", "\n", "7", ",", "k">>)) : st \in {CNumber, CMissing}}

\* Values whose conversion or assignment depends on the prototype chain: an
\* object with an own toString or __proto__ key, an array that holds such an
\* object, letters and white space outside ASCII; and the field mappings that
\* replace the prototype of the record under construction
PrototypeItems ==
    <<ObjectRecord(<<[key |-> "i", val |-> Str(<<"7">>)], [key |-> "o", val |-> ObjWith(<<"__proto__">>)],
                     [key |-> "b", val |-> Str(<<"B">>)],
                     [key |-> "u", val |-> Str(<<"\\u00a0", "s", "t", "r", "a", "\\u00df", "e", "\\ufeff">>)]>>),
      ObjectRecord(<<[key |-> "o", val |-> ObjWith(<<"toString">>)], [key |-> "b", val |-> Str(<<"x">>)],
                     [key |-> "u", val |-> ArrThrowing]>>)>>
PrototypeSources ==
    {JsonSource(ArrayDoc(PrototypeItems)),
     JsonSource(ArrayDoc(<<PrototypeItems[1]>>)),
     TextSource(Chars("[{\"o\":{\"__proto__\":1},\"b\":\"B\",\"u\":\"\\u00c9x \\\\u000b\"},{\"u\":[{\"toString\":1}]}]"))}
PrototypeMappings ==
    {<<Mapping("constructor", "__proto__", Absent), Mapping("b", "name", Absent)>>,
     <<Mapping("constructor", "__proto__", Absent), Mapping("b", "email", Absent)>>,
     <<Mapping("o", "__proto__", Absent), Mapping("b", "__proto__", Absent)>>,
     <<Mapping("u", "email", "uppercase"), Mapping("b", "name", "lowercase")>>,
     <<Mapping("u", "email", "lowercase"), Mapping("o", "name", Absent)>>,
     <<Mapping("b", "email", Absent), Mapping("u", "name", "trim")>>,
     <<Mapping("o", "name", "number"), Mapping("b", "email", Absent)>>}
PrototypeRequests ==
    {Request(Candidate("json", "users", "i", fm, skip, FALSE), src) :
        fm \in PrototypeMappings, skip \in BOOLEAN, src \in PrototypeSources}

\* CSV text with a blank line, the identifier field being a column, a name
\* that is no column, or a member of Object.prototype
BlankLineRequests ==
    {Request(Candidate("csv", "users", id,
                       <<Mapping("a", "email", Absent), Mapping("b", "name", Absent)>>, skip, TRUE),
             TextSource(Chars("i,a,b\n\n7,x,y"))) :
        id \in {"i", "k", "constructor", "toString"}, skip \in BOOLEAN}

Requests ==
    MappingCentredRequests \cup SourceCentredRequests \cup CoverageRequests
    \cup ShapeRequests \cup BadRequests \cup NamedRequests \cup PrototypeRequests
    \cup BlankLineRequests

NoSummary ==
    [totalRecords |-> 0, successfulImports |-> 0, failedImports |-> 0,
     targetRepository |-> "", importedAt |-> 0]

\* A response: the HTTP status and the keys of the JSON body that are present
NoResponse ==
    [status |-> 0, error |-> "", hasValid |-> FALSE, valid |-> FALSE,
     hasErrors |-> FALSE, errors |-> <<>>, message |-> "",
     hasSummary |-> FALSE, summary |-> NoSummary,
     hasRecords |-> FALSE, records |-> <<>>]

\* res.status(code).json({ error })
ErrorResponse(code, text) == [NoResponse EXCEPT !.status = code, !.error = text]

\* res.json({ valid: false, errors })
InvalidResponse(errs) ==
    [NoResponse EXCEPT !.status = 200, !.hasValid = TRUE, !.valid = FALSE,
                       !.hasErrors = TRUE, !.errors = errs]

\* res.json({ valid: true, message, records: [] })
EmptyResponse ==
    [NoResponse EXCEPT !.status = 200, !.hasValid = TRUE, !.valid = TRUE,
                       !.message = "Source file parsed but contains no records.",
                       !.hasRecords = TRUE, !.records = <<>>]

\* res.json({ valid: true, summary, records })
ImportResponse(sourceRecs, recs, config, stamp) ==
    [NoResponse EXCEPT !.status = 200, !.hasValid = TRUE, !.valid = TRUE,
                       !.hasSummary = TRUE,
                       !.summary = importSummary(sourceRecs, recs, config, stamp),
                       !.hasRecords = TRUE, !.records = recs]

NoValidConfig ==
    [name |-> "", sourceType |-> "", targetRepository |-> "", idField |-> "",
     fieldMappings |-> <<>>,
     options |-> [skipEmptyFields |-> FALSE, validateRequired |-> FALSE]]

NoRequest ==
    [hasConfig |-> FALSE,
     config |-> Candidate("", "", "", <<>>, FALSE, FALSE),
     sourceFile |-> AbsentSource]

\* !config || !sourceFile || typeof sourceFile !== 'string'
configMissing(request) == ~request.hasConfig
\* Mutant: a request without sourceFile is let through
sourceFileMissingNever(request) == FALSE

sourceFileMissing(request) ==
    \/ request.sourceFile.kind = "absent"
    \/ request.sourceFile.kind = "text" /\ request.sourceFile.text = <<>>

\* the errors array gets an entry for every record with errors
pushErrors(errs, idx, record) ==
    IF record.meta.errors.defined
    THEN Append(errs, [index |-> idx, errors |-> record.meta.errors.list])
    ELSE errs

Init ==
    /\ pc = "idle"
    /\ req = NoRequest
    /\ validConfig = NoValidConfig
    /\ sourceRecords = <<>>
    /\ index = 0
    /\ records = <<>>
    /\ errors = <<>>
    /\ importedAt = 0
    /\ res = NoResponse
    /\ now = 0
    /\ calls = 0
    /\ prev = [req |-> NoRequest, res |-> NoResponse, other |-> NoRequest]
    /\ registry = REPOSITORY_SCHEMA

\* Requests served between two submissions of one of them: one for every
\* way the handler ends, with configurations, sources and records that
\* differ from one to the other
Interleaved ==
    {Request(Candidate("json", "users", "i",
                       <<Mapping("a", "email", "number"), Mapping("b", "name", Absent)>>, FALSE, TRUE),
             JsonSource(ArrayDoc(<<
                ObjectRecord(<<[key |-> "i", val |-> Str(<<"7">>)], [key |-> "a", val |-> Str(<<" ","a","B">>)],
                               [key |-> "b", val |-> Str(<<>>)]>>),
                ObjectRecord(<<[key |-> "a", val |-> Str(<<"7"," ">>)], [key |-> "b", val |-> Null]>>)>>))),
     Request(Candidate("csv", "products", "i", <<Mapping("a", "sku", Absent)>>, FALSE, FALSE),
             TextSource(<<"i", ",", "a", "\n", "7", ",", "k">>)),
     Request(Candidate("csv", "users", "i", <<Mapping("a", "email", Absent)>>, FALSE, TRUE),
             TextSource(<<"i", ",", "a", "\n", "7", ",", "k">>)),
     Request(Candidate("json", "users", "i",
                       <<Mapping("a", "email", Absent), Mapping("b", "name", Absent)>>, FALSE, TRUE),
             TextSource(<<"i", ",", "a", ",", "b", "\n", "7", ",", "a", "B", ",", "x">>)),
     Request(Candidate("json", "users", "i",
                       <<Mapping("a", "email", "trim"), Mapping("b", "name", Absent)>>, TRUE, TRUE),
             JsonSource(ObjectDoc(<<ArrayEntry("items", <<>>)>>))),
     Request(Defective({"sourceType"}), TextSource(<<"i", ",", "a", "\n", "7", ",", "k">>))}

\* A new activation of the handler for `request`: the bindings of lines
\* 726-791 belong to the activation and are not yet assigned, nothing is
\* sent.  The clock and the registry belong to the process and stay as the
\* activations before left them
Enter(request) ==
    /\ pc' = "request"
    /\ req' = request
    /\ validConfig' = NoValidConfig
    /\ sourceRecords' = <<>>
    /\ index' = 0
    /\ records' = <<>>
    /\ errors' = <<>>
    /\ importedAt' = 0
    /\ res' = NoResponse
    /\ UNCHANGED <<now, registry>>

\* The first request arrives
Receive ==
    /\ pc = "idle"
    /\ \E request \in Requests : Enter(request)
    /\ calls' = calls + 1
    /\ UNCHANGED prev

\* The same request is submitted again after its response
Rerun ==
    /\ pc = "done"
    /\ calls < MaxCalls
    /\ req # prev.other
    /\ Enter(req)
    /\ prev' = [req |-> req, res |-> res, other |-> NoRequest]
    /\ calls' = calls + 1

\* Another request is served before the same request is submitted again
Interleave ==
    /\ pc = "done"
    /\ calls < MaxCalls
    /\ req # prev.other
    /\ req \in Interleaved
    /\ \E request \in Interleaved \ {req} :
          /\ Enter(request)
          /\ prev' = [req |-> req, res |-> res, other |-> request]
    /\ UNCHANGED calls

\* The request under comparison is submitted again after the other one
Resubmit ==
    /\ pc = "done"
    /\ req = prev.other
    /\ Enter(prev.req)
    /\ calls' = calls + 1
    /\ UNCHANGED prev

\* lines 728-734: the request lacks config or a non-empty string sourceFile
RejectRequest ==
    /\ pc = "request"
    /\ configMissing(req) \/ sourceFileMissing(req)
    /\ res' = IF configMissing(req)
              THEN ErrorResponse(400, "config is required")
              ELSE ErrorResponse(400, "sourceFile is required and must be a string")
    /\ pc' = "done"
    /\ UNCHANGED <<req, validConfig, sourceRecords, index, records, errors, importedAt,
                   now, calls, prev, registry>>

\* lines 737-747: shape validation fails
RejectShape ==
    /\ pc = "request"
    /\ ~configMissing(req) /\ ~sourceFileMissing(req)
    /\ MappingConfigSchemaIssues(req.config) # <<>>
    /\ res' = InvalidResponse(MappingConfigSchemaIssues(req.config))
    /\ pc' = "done"
    /\ UNCHANGED <<req, validConfig, sourceRecords, index, records, errors, importedAt,
                   now, calls, prev, registry>>

\* Mutant: 'id' is taken out of repoSchema.required in place,
\* required.splice(required.indexOf('id'), 1), which changes the array held
\* by REPOSITORY_SCHEMA; without 'id' in it, index -1 takes the last field
AcceptShapeSplice ==
    /\ pc = "request"
    /\ ~configMissing(req) /\ ~sourceFileMissing(req)
    /\ MappingConfigSchemaIssues(req.config) = <<>>
    /\ validConfig' = MappingConfigSchemaData(req.config)
    /\ LET required == registry[validConfig'.targetRepository].required
           at == IF \E k \in 1..Len(required) : required[k] = "id"
                 THEN CHOOSE k \in 1..Len(required) : required[k] = "id"
                 ELSE Len(required)
       IN registry' = [registry EXCEPT ![validConfig'.targetRepository].required =
                          SubSeq(required, 1, at - 1) \o SubSeq(required, at + 1, Len(required))]
    /\ pc' = "coverage"
    /\ UNCHANGED <<req, sourceRecords, index, records, errors, importedAt, res,
                   now, calls, prev>>

\* lines 737-757: shape validation passes; the registry entry and its
\* required fields are read, required.filter builds new arrays
AcceptShape ==
    /\ pc = "request"
    /\ ~configMissing(req) /\ ~sourceFileMissing(req)
    /\ MappingConfigSchemaIssues(req.config) = <<>>
    /\ validConfig' = MappingConfigSchemaData(req.config)
    /\ pc' = "coverage"
    /\ UNCHANGED <<req, sourceRecords, index, records, errors, importedAt, res,
                   now, calls, prev, registry>>

coverageFails(schema, config) ==
    config.options.validateRequired /\ Len(missingRequired(schema, config)) > 0

\* lines 751-767: a required target field is not mapped
RejectCoverage ==
    /\ pc = "coverage"
    /\ coverageFails(registry[validConfig.targetRepository], validConfig)
    /\ res' = InvalidResponse(coverageErrors(registry[validConfig.targetRepository], validConfig))
    /\ pc' = "done"
    /\ UNCHANGED <<req, validConfig, sourceRecords, index, records, errors, importedAt,
                   now, calls, prev, registry>>

\* Mutant: the parser's exception reaches the handler's outer catch
ParseFailUncaught ==
    /\ pc = "coverage"
    /\ ~coverageFails(registry[validConfig.targetRepository], validConfig)
    /\ parseSourceFileThrows(req.sourceFile, validConfig.sourceType)
    /\ res' = ErrorResponse(500, "Failed to execute config")
    /\ pc' = "done"
    /\ UNCHANGED <<req, validConfig, sourceRecords, index, records, errors, importedAt,
                   now, calls, prev, registry>>

\* lines 769-778: parseSourceFile throws
ParseFail ==
    /\ pc = "coverage"
    /\ ~coverageFails(registry[validConfig.targetRepository], validConfig)
    /\ parseSourceFileThrows(req.sourceFile, validConfig.sourceType)
    /\ res' = InvalidResponse(<<Issue("sourceFile", "Failed to parse",
                                      parseSourceFileError(req.sourceFile, validConfig.sourceType),
                                      <<>>)>>)
    /\ pc' = "done"
    /\ UNCHANGED <<req, validConfig, sourceRecords, index, records, errors, importedAt,
                   now, calls, prev, registry>>

\* Mutant: an empty source is answered with a summary of zero records
ParseEmptyWithSummary ==
    /\ pc = "coverage"
    /\ ~coverageFails(registry[validConfig.targetRepository], validConfig)
    /\ ~parseSourceFileThrows(req.sourceFile, validConfig.sourceType)
    /\ parseSourceFile(req.sourceFile, validConfig.sourceType) = <<>>
    /\ sourceRecords' = <<>>
    /\ res' = ImportResponse(<<>>, <<>>, validConfig, now)
    /\ pc' = "done"
    /\ UNCHANGED <<req, validConfig, index, records, errors, importedAt, now, calls, prev, registry>>

\* lines 780-786: the source has no records
ParseEmpty ==
    /\ pc = "coverage"
    /\ ~coverageFails(registry[validConfig.targetRepository], validConfig)
    /\ ~parseSourceFileThrows(req.sourceFile, validConfig.sourceType)
    /\ parseSourceFile(req.sourceFile, validConfig.sourceType) = <<>>
    /\ sourceRecords' = <<>>
    /\ res' = EmptyResponse
    /\ pc' = "done"
    /\ UNCHANGED <<req, validConfig, index, records, errors, importedAt, now, calls, prev, registry>>

\* lines 788-791: the import starts
StartImport ==
    /\ pc = "coverage"
    /\ ~coverageFails(registry[validConfig.targetRepository], validConfig)
    /\ ~parseSourceFileThrows(req.sourceFile, validConfig.sourceType)
    /\ sourceRecords' = parseSourceFile(req.sourceFile, validConfig.sourceType)
    /\ sourceRecords' # <<>>
    /\ importedAt' = now
    /\ records' = <<>>
    /\ errors' = <<>>
    /\ index' = 0
    /\ pc' = "import"
    /\ UNCHANGED <<req, validConfig, res, now, calls, prev, registry>>

\* Mutant: the new record is put in front of the records built so far
ImportRecordInFront ==
    /\ pc = "import"
    /\ index < Len(sourceRecords)
    /\ LET push(record) ==
              /\ record # TypeError
              /\ records' = <<record>> \o records
              /\ errors' = pushErrors(errors, index, record)
       IN push(standardizedRecord(sourceRecords[index + 1], index, validConfig, importedAt))
    /\ index' = index + 1
    /\ UNCHANGED <<pc, req, validConfig, sourceRecords, importedAt, res, now, calls, prev, registry>>

\* Mutant: every record is stamped with the time at which it is built
ImportRecordOwnStamp ==
    /\ pc = "import"
    /\ index < Len(sourceRecords)
    /\ LET push(record) ==
              /\ record # TypeError
              /\ records' = Append(records, record)
              /\ errors' = pushErrors(errors, index, record)
       IN push(standardizedRecord(sourceRecords[index + 1], index, validConfig, now))
    /\ index' = index + 1
    /\ UNCHANGED <<pc, req, validConfig, sourceRecords, importedAt, res, now, calls, prev, registry>>

\* lines 793-859: one iteration of the record loop
ImportRecord ==
    /\ pc = "import"
    /\ index < Len(sourceRecords)
    /\ LET push(record) ==
              /\ record # TypeError
              /\ records' = Append(records, record)
              /\ errors' = pushErrors(errors, index, record)
       IN push(standardizedRecord(sourceRecords[index + 1], index, validConfig, importedAt))
    /\ index' = index + 1
    /\ UNCHANGED <<pc, req, validConfig, sourceRecords, importedAt, res, now, calls, prev, registry>>

\* lines 798-847 and 874-877: the iteration throws, the handler's catch
\* answers 500
ImportThrow ==
    /\ pc = "import"
    /\ index < Len(sourceRecords)
    /\ standardizedRecord(sourceRecords[index + 1], index, validConfig, importedAt) = TypeError
    /\ res' = ErrorResponse(500, "Failed to execute config")
    /\ pc' = "done"
    /\ UNCHANGED <<req, validConfig, sourceRecords, index, records, errors, importedAt,
                   now, calls, prev, registry>>

\* lines 861-873: the loop is over, the summary is computed and sent
Respond ==
    /\ pc = "import"
    /\ index = Len(sourceRecords)
    /\ res' = ImportResponse(sourceRecords, records, validConfig, importedAt)
    /\ pc' = "done"
    /\ UNCHANGED <<req, validConfig, sourceRecords, index, records, errors, importedAt,
                   now, calls, prev, registry>>

\* Time passes while records are processed and between requests
Tick ==
    /\ pc \in {"import", "done"}
    /\ now < MaxTime
    /\ now' = now + 1
    /\ UNCHANGED <<pc, req, validConfig, sourceRecords, index, records, errors, importedAt,
                   res, calls, prev, registry>>

Next ==
    \/ Receive
    \/ Rerun
    \/ Interleave
    \/ Resubmit
    \/ RejectRequest
    \/ RejectShape
    \/ AcceptShape
    \/ RejectCoverage
    \/ ParseFail
    \/ ParseEmpty
    \/ StartImport
    \/ ImportRecord
    \/ ImportThrow
    \/ Respond
    \/ Tick

Spec == Init /\ [][Next]_vars

(***************************************************************************)
(* The sourceData variant of POST /execute/config (src/unnamed/part_000,   *)
(* lines 103-228): targetRepository is any string and is looked up in      *)
(* REPOSITORY_SCHEMA by the handler, the records come as a JSON array in   *)
(* req.body.sourceData, and there is no idField.  Its mapping loop is the  *)
(* loop of applyMappings.                                                  *)
(***************************************************************************)
\* Object.keys(REPOSITORY_SCHEMA)
RepositoryKeys == <<"users", "products", "orders">>

\* REPOSITORY_SCHEMA[validConfig.targetRepository]: an entry of the registry,
\* a member of Object.prototype (truthy, without `required`), or undefined
repoSchema(targetRepository) ==
    IF targetRepository \in Members(RepositoryKeys) THEN "entry"
    ELSE IF targetRepository \in ObjectPrototypeKeys THEN "inherited"
    ELSE "undefined"

\* `Unknown repository "${...}". Valid: ${Object.keys(REPOSITORY_SCHEMA).join(', ')}`
unknownRepositoryError(targetRepository) ==
    <<Issue("targetRepository", "Unknown repository", targetRepository, RepositoryKeys)>>

\* MappingConfigSchema.safeParse(config).error.issues of this variant
sourceDataSchemaIssues(config) ==
    stringIssues("name", config.name)
    \o stringIssues("sourceType", config.sourceType)
    \o stringIssues("targetRepository", config.targetRepository)
    \o fieldMappingsIssues(config.fieldMappings, 1)
    \o booleanIssues("options.skipEmptyFields", config.options.skipEmptyFields)
    \o booleanIssues("options.validateRequired", config.options.validateRequired)

\* MappingConfigSchema.safeParse(config).data of this variant
sourceDataSchemaData(config) ==
    [name |-> config.name.v,
     sourceType |-> config.sourceType.v,
     targetRepository |-> config.targetRepository.v,
     fieldMappings |-> [k \in 1..Len(config.fieldMappings) |->
        [sourceField |-> config.fieldMappings[k].sourceField.v,
         targetField |-> config.fieldMappings[k].targetField.v,
         transform |-> IF config.fieldMappings[k].transform.ty = "undefined"
                       THEN Absent ELSE config.fieldMappings[k].transform.v]],
     options |-> [skipEmptyFields |-> config.options.skipEmptyFields.v = "true",
                  validateRequired |-> config.options.validateRequired.v = "true"]]

\* repoSchema.required.filter(f => !mappedTargetFields.includes(f))
sourceDataMissingRequired(config) ==
    LET unmapped(f) == f \notin Members(mappedTargetFields(config))
    IN SelectSeq(REPOSITORY_SCHEMA[config.targetRepository].required, unmapped)

sourceDataCoverageErrors(config) ==
    LET missing == sourceDataMissingRequired(config)
    IN [k \in 1..Len(missing) |->
          Issue("fieldMappings", "Missing required target field", missing[k], <<>>)]

\* the callback of sourceData.map: what it returns, or TypeError when it
\* throws one (the first mapping reads a field of a null element, or the
\* switch or the assignment of a mapping throws)
importedRecord(sourceRecord, idx, config) ==
    LET imported(built) ==
            IF (config.fieldMappings # <<>> /\ readThrows(sourceRecord)) \/ built.thrown
            THEN TypeError
            ELSE [index |-> idx,
                  success |-> Len(built.recordErrors) = 0,
                  errors |-> built.recordErrors,
                  record |-> built.data]
    IN imported(applyMappings(started(<<>>, <<>>), sourceRecord, config.fieldMappings,
                              config.options.skipEmptyFields, 1))


importedRecords(sourceData, config) ==
    [k \in 1..Len(sourceData) |-> importedRecord(sourceData[k], k - 1, config)]

\* importedRecords.filter(r => r._success).length
sourceDataSuccessCount(recs) == Cardinality({k \in 1..Len(recs) : recs[k].success})

\* req.body.sourceData: absent, a value that is not an array, or an array
NoSourceData == [kind |-> "absent", items |-> <<>>]
OtherSourceData == [kind |-> "other", items |-> <<>>]
ArraySourceData(items) == [kind |-> "array", items |-> items]

\* !sourceData || !Array.isArray(sourceData)
sourceDataMissing(request) == request.sourceData.kind # "array"

SourceDataCandidate(targetRepository, fieldMappings, skipEmptyFields, validateRequired) ==
    [name |-> CStr("import"),
     sourceType |-> CStr("api"),
     targetRepository |-> CStr(targetRepository),
     fieldMappings |-> fieldMappings,
     options |-> [skipEmptyFields |-> CBool(skipEmptyFields),
                  validateRequired |-> CBool(validateRequired)]]

SourceDataRequest(config, sourceData) ==
    [hasConfig |-> TRUE, config |-> config, sourceData |-> sourceData]

\* Repository names: the registry's keys, two names it does not hold, and
\* one of them a member of Object.prototype
RepositoryNames == Members(RepositoryKeys) \cup {"customers", "constructor"}

SourceDataRequests ==
    {SourceDataRequest(
        SourceDataCandidate(repo, [k \in 1..Len(fields) |-> Mapping("a", fields[k], Absent)],
                            FALSE, vr), sd) :
        repo \in RepositoryNames, vr \in BOOLEAN,
        fields \in UNION {SubLists(REPOSITORY_SCHEMA[r].required) : r \in Members(RepositoryKeys)},
        sd \in {NoSourceData, ArraySourceData(<<OneRecord>>)}}
    \cup {SourceDataRequest(SourceDataCandidate("users", fm, skip, FALSE), sd) :
            fm \in SeqsUpTo(MappingChoices, MaxMappings), skip \in BOOLEAN,
            sd \in {OtherSourceData} \cup {ArraySourceData(src.doc.items) :
                                              src \in {f \in FewSources : f.kind = "json"}}}
    \cup {SourceDataRequest(
            SourceDataCandidate(repo, <<Mapping("a", "email", "number"), Mapping("b", "name", Absent)>>,
                                TRUE, FALSE),
            ArraySourceData(items)) :
            repo \in {"users", "customers"}, items \in SeqsUpTo(RecordChoices, MaxRecords)}
    \cup {SourceDataRequest(
            [SourceDataCandidate("customers", <<>>, TRUE, TRUE) EXCEPT !.name = CMissing],
            NoSourceData),
          [hasConfig |-> FALSE, config |-> SourceDataCandidate("users", <<>>, TRUE, TRUE),
           sourceData |-> NoSourceData]}
    \cup {SourceDataRequest(SourceDataCandidate("users", fm, skip, FALSE), ArraySourceData(src.doc.items)) :
            fm \in PrototypeMappings, skip \in BOOLEAN,
            src \in {f \in PrototypeSources : f.kind = "json"}}

NoConfigSummary == [name |-> "", targetRepository |-> "", fieldCount |-> 0, mappedFields |-> <<>>]
NoSourceDataSummary ==
    [totalRecords |-> 0, successfulImports |-> 0, failedImports |-> 0, targetRepository |-> ""]

\* A response of this variant
NoSourceDataResponse ==
    [status |-> 0, error |-> "", hasValid |-> FALSE, valid |-> FALSE,
     hasErrors |-> FALSE, errors |-> <<>>, message |-> "",
     hasConfigSummary |-> FALSE, configSummary |-> NoConfigSummary,
     hasSummary |-> FALSE, summary |-> NoSourceDataSummary,
     hasRecords |-> FALSE, importedRecords |-> <<>>]

sourceDataError(code, text) == [NoSourceDataResponse EXCEPT !.status = code, !.error = text]

sourceDataInvalid(errs) ==
    [NoSourceDataResponse EXCEPT !.status = 200, !.hasValid = TRUE, !.valid = FALSE,
                                 !.hasErrors = TRUE, !.errors = errs]

\* res.json({ valid: true, message, configSummary })
sourceDataValidated(config) ==
    [NoSourceDataResponse EXCEPT
        !.status = 200, !.hasValid = TRUE, !.valid = TRUE,
        !.message = "Config is valid. Provide sourceData array to simulate import.",
        !.hasConfigSummary = TRUE,
        !.configSummary = [name |-> config.name,
                           targetRepository |-> config.targetRepository,
                           fieldCount |-> Len(config.fieldMappings),
                           mappedFields |-> mappedTargetFields(config)]]

\* res.json({ valid: true, summary, importedRecords })
sourceDataImported(sourceData, recs, config) ==
    [NoSourceDataResponse EXCEPT
        !.status = 200, !.hasValid = TRUE, !.valid = TRUE,
        !.hasSummary = TRUE,
        !.summary = [totalRecords |-> Len(sourceData),
                     successfulImports |-> sourceDataSuccessCount(recs),
                     failedImports |-> Len(sourceData) - sourceDataSuccessCount(recs),
                     targetRepository |-> config.targetRepository],
        !.hasRecords = TRUE, !.importedRecords = recs]

NoSourceDataConfig ==
    [name |-> "", sourceType |-> "", targetRepository |-> "", fieldMappings |-> <<>>,
     options |-> [skipEmptyFields |-> FALSE, validateRequired |-> FALSE]]

NoSourceDataRequest ==
    [hasConfig |-> FALSE, config |-> SourceDataCandidate("", <<>>, FALSE, FALSE),
     sourceData |-> NoSourceData]

InitData ==
    /\ pc = "idle"
    /\ req = NoSourceDataRequest
    /\ validConfig = NoSourceDataConfig
    /\ sourceRecords = <<>>
    /\ index = 0
    /\ records = <<>>
    /\ errors = <<>>
    /\ importedAt = 0
    /\ res = NoSourceDataResponse
    /\ now = 0
    /\ calls = 0
    /\ prev = [req |-> NoSourceDataRequest, res |-> NoSourceDataResponse, other |-> NoSourceDataRequest]
    /\ registry = REPOSITORY_SCHEMA

\* A request arrives, the first one or the next one after a response
DataReceive ==
    /\ pc \in {"idle", "done"}
    /\ \E request \in SourceDataRequests : req' = request
    /\ pc' = "request"
    /\ validConfig' = NoSourceDataConfig
    /\ sourceRecords' = <<>>
    /\ records' = <<>>
    /\ res' = NoSourceDataResponse
    /\ UNCHANGED <<index, errors, importedAt, now, calls, prev, registry>>

\* lines 107-109
DataRejectRequest ==
    /\ pc = "request"
    /\ ~req.hasConfig
    /\ res' = sourceDataError(400, "config is required")
    /\ pc' = "done"
    /\ UNCHANGED <<req, validConfig, sourceRecords, index, records, errors, importedAt,
                   now, calls, prev, registry>>

\* lines 112-122
DataRejectShape ==
    /\ pc = "request"
    /\ req.hasConfig
    /\ sourceDataSchemaIssues(req.config) # <<>>
    /\ res' = sourceDataInvalid(sourceDataSchemaIssues(req.config))
    /\ pc' = "done"
    /\ UNCHANGED <<req, validConfig, sourceRecords, index, records, errors, importedAt,
                   now, calls, prev, registry>>

\* line 124
DataAcceptShape ==
    /\ pc = "request"
    /\ req.hasConfig
    /\ sourceDataSchemaIssues(req.config) = <<>>
    /\ validConfig' = sourceDataSchemaData(req.config)
    /\ pc' = "repository"
    /\ UNCHANGED <<req, sourceRecords, index, records, errors, importedAt, res,
                   now, calls, prev, registry>>

\* lines 127-136: the lookup yields undefined
DataRejectRepository ==
    /\ pc = "repository"
    /\ repoSchema(validConfig.targetRepository) = "undefined"
    /\ res' = sourceDataInvalid(unknownRepositoryError(validConfig.targetRepository))
    /\ pc' = "done"
    /\ UNCHANGED <<req, validConfig, sourceRecords, index, records, errors, importedAt,
                   now, calls, prev, registry>>

\* line 128: the lookup yields a truthy value
DataAcceptRepository ==
    /\ pc = "repository"
    /\ repoSchema(validConfig.targetRepository) # "undefined"
    /\ pc' = "coverage"
    /\ UNCHANGED <<req, validConfig, sourceRecords, index, records, errors, importedAt, res,
                   now, calls, prev, registry>>

\* lines 140 and 224-227: repoSchema.required is undefined on a member of
\* Object.prototype, .filter throws, the handler's catch answers 500
DataCoverageThrow ==
    /\ pc = "coverage"
    /\ repoSchema(validConfig.targetRepository) = "inherited"
    /\ res' = sourceDataError(500, "Failed to execute config")
    /\ pc' = "done"
    /\ UNCHANGED <<req, validConfig, sourceRecords, index, records, errors, importedAt,
                   now, calls, prev, registry>>

sourceDataCoverageFails(config) ==
    config.options.validateRequired /\ Len(sourceDataMissingRequired(config)) > 0

\* lines 142-150
DataRejectCoverage ==
    /\ pc = "coverage"
    /\ repoSchema(validConfig.targetRepository) = "entry"
    /\ sourceDataCoverageFails(validConfig)
    /\ res' = sourceDataInvalid(sourceDataCoverageErrors(validConfig))
    /\ pc' = "done"
    /\ UNCHANGED <<req, validConfig, sourceRecords, index, records, errors, importedAt,
                   now, calls, prev, registry>>

\* lines 153-164: no sourceData array, the configuration is only validated
DataValidateOnly ==
    /\ pc = "coverage"
    /\ repoSchema(validConfig.targetRepository) = "entry"
    /\ ~sourceDataCoverageFails(validConfig)
    /\ sourceDataMissing(req)
    /\ res' = sourceDataValidated(validConfig)
    /\ pc' = "done"
    /\ UNCHANGED <<req, validConfig, sourceRecords, index, records, errors, importedAt,
                   now, calls, prev, registry>>

\* lines 167-223: every record is mapped and the summary is sent
DataImport ==
    /\ pc = "coverage"
    /\ repoSchema(validConfig.targetRepository) = "entry"
    /\ ~sourceDataCoverageFails(validConfig)
    /\ ~sourceDataMissing(req)
    /\ sourceRecords' = req.sourceData.items
    /\ records' = importedRecords(req.sourceData.items, validConfig)
    /\ \A k \in 1..Len(records') : records'[k] # TypeError
    /\ res' = sourceDataImported(req.sourceData.items, records', validConfig)
    /\ pc' = "done"
    /\ UNCHANGED <<req, validConfig, index, errors, importedAt, now, calls, prev, registry>>

\* lines 167-203 and 224-227: the callback throws for some record
DataImportThrow ==
    /\ pc = "coverage"
    /\ repoSchema(validConfig.targetRepository) = "entry"
    /\ ~sourceDataCoverageFails(validConfig)
    /\ ~sourceDataMissing(req)
    /\ \E k \in 1..Len(req.sourceData.items) :
          importedRecord(req.sourceData.items[k], k - 1, validConfig) = TypeError
    /\ res' = sourceDataError(500, "Failed to execute config")
    /\ pc' = "done"
    /\ UNCHANGED <<req, validConfig, sourceRecords, index, records, errors, importedAt,
                   now, calls, prev, registry>>

NextData ==
    \/ DataReceive
    \/ DataRejectRequest
    \/ DataRejectShape
    \/ DataAcceptShape
    \/ DataRejectRepository
    \/ DataAcceptRepository
    \/ DataCoverageThrow
    \/ DataRejectCoverage
    \/ DataValidateOnly
    \/ DataImport
    \/ DataImportThrow

SpecData == InitData /\ [][NextData]_vars

(***************************************************************************)
(* The order-only variant of POST /execute/config (src/unnamed/part_000,   *)
(* lines 573-713): one implicit target schema, no targetRepository (the    *)
(* schema strips the key when a candidate has it), output records          *)
(* { _sourceIndex, _success, _errors, order }.  Its request checks, its    *)
(* source parser (lines 369-420) and its mapping loop are those of the     *)
(* catalog handler; the `orders` array of a response is held in the        *)
(* records field.                                                          *)
(***************************************************************************)
TARGET_ORDER_SCHEMA ==
    [required |-> <<"orderId">>,
     optional |-> <<"customerId", "customerEmail", "customerName", "totalAmount", "currency",
                    "status", "itemCount", "shippingAddress", "shippingCity",
                    "shippingCountry", "createdAt", "updatedAt", "notes">>]

\* MappingConfigSchema.safeParse(config).error.issues of this variant
orderSchemaIssues(config) ==
    stringIssues("name", config.name)
    \o enumIssues("sourceType", config.sourceType, SourceTypes)
    \o stringIssues("idField", config.idField)
    \o fieldMappingsIssues(config.fieldMappings, 1)
    \o booleanIssues("options.skipEmptyFields", config.options.skipEmptyFields)
    \o booleanIssues("options.validateRequired", config.options.validateRequired)

\* MappingConfigSchema.safeParse(config).data of this variant
orderSchemaData(config) ==
    [name |-> config.name.v,
     sourceType |-> config.sourceType.v,
     idField |-> config.idField.v,
     fieldMappings |-> [k \in 1..Len(config.fieldMappings) |->
        [sourceField |-> config.fieldMappings[k].sourceField.v,
         targetField |-> config.fieldMappings[k].targetField.v,
         transform |-> IF config.fieldMappings[k].transform.ty = "undefined"
                       THEN Absent ELSE config.fieldMappings[k].transform.v]],
     options |-> [skipEmptyFields |-> config.options.skipEmptyFields.v = "true",
                  validateRequired |-> config.options.validateRequired.v = "true"]]

\* TARGET_ORDER_SCHEMA.required.filter(f => f !== 'orderId')
\*     .filter(f => !mappedTargetFields.has(f))
orderMissingRequired(config) ==
    LET wanted(f) == f # "orderId" /\ f \notin Members(mappedTargetFields(config))
    IN SelectSeq(TARGET_ORDER_SCHEMA.required, wanted)

orderCoverageErrors(config) ==
    LET missing == orderMissingRequired(config)
    IN [k \in 1..Len(missing) |->
          Issue("fieldMappings", "Missing required target field", missing[k], <<>>)]

orderCoverageFails(config) ==
    config.options.validateRequired /\ Len(orderMissingRequired(config)) > 0

MissingOrderIdError(idField) == [kind |-> "Missing order ID field", field |-> idField]

\* the element pushed to `orders` for sourceRecords[idx]: the order object
\* starts as { orderId } and the mapping loop writes into it.  It is
\* TypeError when the iteration throws one: the element is null,
\* String(orderId) throws, or the switch or the assignment of a mapping does.
standardizedOrder(sourceRecord, idx, config) ==
    LET literal(orderId) ==
            started(<<[key |-> "orderId", val |-> Str(idString(orderId, idx))]>>,
                    IF IsEmpty(orderId) THEN <<MissingOrderIdError(config.idField)>> ELSE <<>>)
        pushed(orderId, built) ==
            IF \/ readThrows(sourceRecord) \/ built.thrown
               \/ idString(orderId, idx) = TypeError.s
            THEN TypeError
            ELSE [sourceIndex |-> idx,
                  success |-> Len(built.recordErrors) = 0,
                  errors |-> metaErrors(built.recordErrors),
                  order |-> built.data]
    IN pushed(readField(sourceRecord, config.idField),
              applyMappings(literal(readField(sourceRecord, config.idField)),
                            sourceRecord, config.fieldMappings,
                            config.options.skipEmptyFields, 1))


\* res.json({ valid: true, summary, orders })
orderImported(sourceRecs, orders, stamp) ==
    LET count == Cardinality({k \in 1..Len(orders) : orders[k].success})
    IN [NoResponse EXCEPT
          !.status = 200, !.hasValid = TRUE, !.valid = TRUE,
          !.hasSummary = TRUE,
          !.summary = [totalRecords |-> Len(sourceRecs),
                       successfulImports |-> count,
                       failedImports |-> Len(sourceRecs) - count,
                       targetRepository |-> "",
                       importedAt |-> stamp],
          !.hasRecords = TRUE, !.records = orders]

NoOrderConfig ==
    [name |-> "", sourceType |-> "", idField |-> "", fieldMappings |-> <<>>,
     options |-> [skipEmptyFields |-> FALSE, validateRequired |-> FALSE]]

\* Field mappings of the order requests: one writes orderId, one maps a
\* field the README lists as required
OrderMappingChoices ==
    {Mapping("a", "orderId", Absent), Mapping("a", "customerId", "trim"),
     Mapping("b", "totalAmount", "number"), Mapping("b", "status", Absent)}

OrderRequests ==
    {Request(Candidate(SourceTypeFor(src), "orders", "i", fm, skip, vr), src) :
        fm \in SeqsUpTo(OrderMappingChoices, MaxMappings), skip \in BOOLEAN, vr \in BOOLEAN,
        src \in FewSources}
    \cup {Request(Candidate("json", "orders", "i",
                            <<Mapping("a", "customerId", "number"), Mapping("b", "status", Absent)>>,
                            TRUE, TRUE), src) :
            src \in JsonArraySources \cup JsonOtherSources \cup CsvSources}
    \cup ShapeRequests \cup BadRequests
    \cup {Request(Candidate("json", "orders", "i", fm, skip, FALSE), src) :
            fm \in PrototypeMappings, skip \in BOOLEAN, src \in PrototypeSources}

InitOrder ==
    /\ pc = "idle"
    /\ req = NoRequest
    /\ validConfig = NoOrderConfig
    /\ sourceRecords = <<>>
    /\ index = 0
    /\ records = <<>>
    /\ errors = <<>>
    /\ importedAt = 0
    /\ res = NoResponse
    /\ now = 0
    /\ calls = 0
    /\ prev = [req |-> NoRequest, res |-> NoResponse, other |-> NoRequest]
    /\ registry = REPOSITORY_SCHEMA

\* A request arrives, the first one or the next one after a response
OrderReceive ==
    /\ pc \in {"idle", "done"}
    /\ \E request \in OrderRequests : req' = request
    /\ pc' = "request"
    /\ validConfig' = NoOrderConfig
    /\ sourceRecords' = <<>>
    /\ records' = <<>>
    /\ res' = NoResponse
    /\ UNCHANGED <<index, errors, importedAt, now, calls, prev, registry>>

\* lines 577-583
OrderRejectRequest ==
    /\ pc = "request"
    /\ configMissing(req) \/ sourceFileMissing(req)
    /\ res' = IF configMissing(req)
              THEN ErrorResponse(400, "config is required")
              ELSE ErrorResponse(400, "sourceFile is required and must be a string")
    /\ pc' = "done"
    /\ UNCHANGED <<req, validConfig, sourceRecords, index, records, errors, importedAt,
                   now, calls, prev, registry>>

\* lines 586-596
OrderRejectShape ==
    /\ pc = "request"
    /\ ~configMissing(req) /\ ~sourceFileMissing(req)
    /\ orderSchemaIssues(req.config) # <<>>
    /\ res' = InvalidResponse(orderSchemaIssues(req.config))
    /\ pc' = "done"
    /\ UNCHANGED <<req, validConfig, sourceRecords, index, records, errors, importedAt,
                   now, calls, prev, registry>>

\* line 598
OrderAcceptShape ==
    /\ pc = "request"
    /\ ~configMissing(req) /\ ~sourceFileMissing(req)
    /\ orderSchemaIssues(req.config) = <<>>
    /\ validConfig' = orderSchemaData(req.config)
    /\ pc' = "coverage"
    /\ UNCHANGED <<req, sourceRecords, index, records, errors, importedAt, res,
                   now, calls, prev, registry>>

\* lines 600-613: the required-field check, both of its branches
OrderCheckCoverage ==
    /\ pc = "coverage"
    /\ IF orderCoverageFails(validConfig)
       THEN /\ res' = InvalidResponse(orderCoverageErrors(validConfig))
            /\ pc' = "done"
       ELSE /\ res' = res
            /\ pc' = "parse"
    /\ UNCHANGED <<req, validConfig, sourceRecords, index, records, errors, importedAt,
                   now, calls, prev, registry>>

\* lines 615-624
OrderParseFail ==
    /\ pc = "parse"
    /\ parseSourceFileThrows(req.sourceFile, validConfig.sourceType)
    /\ res' = InvalidResponse(<<Issue("sourceFile", "Failed to parse",
                                      parseSourceFileError(req.sourceFile, validConfig.sourceType),
                                      <<>>)>>)
    /\ pc' = "done"
    /\ UNCHANGED <<req, validConfig, sourceRecords, index, records, errors, importedAt,
                   now, calls, prev, registry>>

\* lines 626-632
OrderParseEmpty ==
    /\ pc = "parse"
    /\ ~parseSourceFileThrows(req.sourceFile, validConfig.sourceType)
    /\ parseSourceFile(req.sourceFile, validConfig.sourceType) = <<>>
    /\ res' = EmptyResponse
    /\ pc' = "done"
    /\ UNCHANGED <<req, validConfig, sourceRecords, index, records, errors, importedAt,
                   now, calls, prev, registry>>

\* lines 634-708: the record loop and the summary response
OrderImport ==
    /\ pc = "parse"
    /\ ~parseSourceFileThrows(req.sourceFile, validConfig.sourceType)
    /\ sourceRecords' = parseSourceFile(req.sourceFile, validConfig.sourceType)
    /\ sourceRecords' # <<>>
    /\ index' = Len(sourceRecords')
    /\ records' = [k \in 1..Len(sourceRecords') |->
                      standardizedOrder(sourceRecords'[k], k - 1, validConfig)]
    /\ \A k \in 1..Len(records') : records'[k] # TypeError
    /\ res' = orderImported(sourceRecords', records', now)
    /\ importedAt' = now
    /\ pc' = "done"
    /\ UNCHANGED <<req, validConfig, errors, now, calls, prev, registry>>

\* lines 635-690 and 709-712: an iteration throws, after the clock was read
\* and the orders of the elements before it were pushed
OrderImportThrow ==
    /\ pc = "parse"
    /\ ~parseSourceFileThrows(req.sourceFile, validConfig.sourceType)
    /\ sourceRecords' = parseSourceFile(req.sourceFile, validConfig.sourceType)
    /\ LET pushedUntil(orders) ==
              /\ \E k \in 1..Len(orders) : orders[k] = TypeError
              /\ index' = (CHOOSE k \in 1..Len(orders) :
                              /\ orders[k] = TypeError
                              /\ \A j \in 1..(k - 1) : orders[j] # TypeError) - 1
              /\ records' = SubSeq(orders, 1, index')
       IN pushedUntil([k \in 1..Len(sourceRecords') |->
                         standardizedOrder(sourceRecords'[k], k - 1, validConfig)])
    /\ importedAt' = now
    /\ res' = ErrorResponse(500, "Failed to execute config")
    /\ pc' = "done"
    /\ UNCHANGED <<req, validConfig, errors, now, calls, prev, registry>>

NextOrder ==
    \/ OrderReceive
    \/ OrderRejectRequest
    \/ OrderRejectShape
    \/ OrderAcceptShape
    \/ OrderCheckCoverage
    \/ OrderParseFail
    \/ OrderParseEmpty
    \/ OrderImport
    \/ OrderImportThrow

SpecOrder == InitOrder /\ [][NextOrder]_vars

(***************************************************************************)
(* Properties.  Vocabulary shared by the formulas below: what the spec     *)
(* says about record j (1-based) of a finished import, read off the        *)
(* parsed source record and the configuration.                             *)
(***************************************************************************)
Imported == pc = "done" /\ res.hasSummary
MappingIndexes == 1..Len(validConfig.fieldMappings)
RecordIndexes == 1..Len(res.records)
RawValue(j, k) == readField(sourceRecords[j], validConfig.fieldMappings[k].sourceField)
RawId(j) == readField(sourceRecords[j], validConfig.idField)
Skipped(j, k) == validConfig.options.skipEmptyFields /\ IsEmpty(RawValue(j, k))
\* the value mapping k hands to data: absent and null bypass the transform
Produced(j, k) ==
    IF RawValue(j, k) \in {Undefined, Null} THEN RawValue(j, k)
    ELSE applyTransform(RawValue(j, k), validConfig.fieldMappings[k].transform)
NumberFails(j, k) ==
    /\ validConfig.fieldMappings[k].transform = "number"
    /\ RawValue(j, k) \notin {Undefined, Null}
    /\ ~Skipped(j, k)
    /\ isNaN(Number(RawValue(j, k)))
\* a targetField that names an ordinary property: an assignment to the
\* accessor __proto__ sets or keeps the prototype of data and creates a key
\* only when the prototype has an own property of that name (see C5)
Ordinary(target) == target # "__proto__"
Writers(j, target) ==
    {k \in MappingIndexes : validConfig.fieldMappings[k].targetField = target /\ ~Skipped(j, k)}
LastOf(S) == CHOOSE k \in S : \A m \in S : m <= k
Count(seq, x) == Cardinality({e \in 1..Len(seq) : seq[e] = x})
HasLocalFailure(j) == IsEmpty(RawId(j)) \/ \E k \in MappingIndexes : NumberFails(j, k)
\* the handler ended in its catch block
Aborted == pc = "done" /\ res.status = 500 /\ res.error = "Failed to execute config"
\* mapping k of record j reaches its transform and the conversion of the raw
\* value (String(value), Number(value)) throws
ConversionThrows(j, k) ==
    /\ validConfig.fieldMappings[k].transform \in {"uppercase", "lowercase", "trim", "number"}
    /\ RawValue(j, k) \notin {Undefined, Null}
    /\ ~Skipped(j, k)
    /\ ToPrimitiveThrows(RawValue(j, k))
\* the number conversion of mapping k is the first step of record j that throws
NumberThrows(j, k) ==
    /\ sourceRecords[j] # NullRecord
    /\ validConfig.fieldMappings[k].transform = "number"
    /\ ConversionThrows(j, k)
    /\ \A m \in 1..(k - 1) :
          /\ ~ConversionThrows(j, m)
          /\ Ordinary(validConfig.fieldMappings[m].targetField)

\* C1: whenever a summary is reported, successfulImports + failedImports =
\* totalRecords, totalRecords is the number of parsed source records, and
\* successfulImports (failedImports) is the number of returned records whose
\* success flag is true (false).
C1_SummaryAddsUp ==
    res.hasSummary =>
        /\ res.summary.successfulImports + res.summary.failedImports = res.summary.totalRecords
        /\ res.summary.totalRecords = Len(sourceRecords)
        /\ res.summary.successfulImports
              = Cardinality({j \in RecordIndexes : res.records[j].meta.success})
        /\ res.summary.failedImports
              = Cardinality({j \in RecordIndexes : ~res.records[j].meta.success})

C1_Witness ==
    /\ Imported
    /\ res.summary.successfulImports >= 1
    /\ res.summary.failedImports >= 1

\* What holds of a batch that has gone through the loop: the response is
\* valid:true with one record per source record; record j fails exactly
\* when source record j itself has a failure, its errors are its own
\* (missing identifier, then one entry per failing mapping of that record),
\* and its id and data are determined by source record j alone: every key of
\* data holds what the last mapping of that key produced from record j, and
\* every mapping that is not skipped has its key in data (but for the
\* targetField __proto__, which is C5's matter).
RecordLocal ==
    (pc = "import" /\ index = Len(sourceRecords)) \/ Imported =>
        /\ Len(records) = Len(sourceRecords)
        /\ Imported => (res.valid /\ res.records = records)
        /\ \A j \in 1..Len(records) :
              /\ records[j].meta.success = ~HasLocalFailure(j)
              /\ Count(records[j].meta.errors.list, MissingIdError(validConfig.idField))
                    = (IF IsEmpty(RawId(j)) THEN 1 ELSE 0)
              /\ Len(records[j].meta.errors.list)
                    = (IF IsEmpty(RawId(j)) THEN 1 ELSE 0)
                      + Cardinality({k \in MappingIndexes : NumberFails(j, k)})
              /\ \A t \in Keys(records[j].data) :
                    /\ Writers(j, t) # {}
                    /\ Get(records[j].data, t) = Produced(j, LastOf(Writers(j, t)))
              /\ \A k \in MappingIndexes :
                    (~Skipped(j, k) /\ Ordinary(validConfig.fieldMappings[k].targetField)) =>
                        HasKey(records[j].data, validConfig.fieldMappings[k].targetField)

\* C2 as stated: a failed number conversion or a missing identifier is
\* record-local.  A number conversion that fails in record i never aborts
\* the import, and once the batch has gone through the loop the response is
\* valid:true with one record per source record, each record failing for its
\* own failures only.
C2_RecordLocalFailures ==
    /\ RecordLocal
    /\ Aborted => \A k \in MappingIndexes : ~NumberThrows(index + 1, k)

\* C2: the number conversion of the second record throws; the import is
\* aborted and the first record, whose own conversion failure was recorded
\* in its errors, is lost with it
C2_ThrowingConversionAborts ==
    /\ Aborted
    /\ Len(sourceRecords) = 2
    /\ index = 1
    /\ NumberFails(1, 1)
    /\ records[1].meta.errors.list = <<NotNumberError("o")>>
    /\ NumberThrows(2, 1)
    /\ ~res.hasValid /\ ~res.hasRecords

\* C2 for the conversions that yield NaN and for missing identifiers: there
\* the statement holds.
C2_RecordLocalWhenConverted == RecordLocal

C2_Witness ==
    /\ Imported
    /\ Len(res.records) = 2
    /\ ~res.records[1].meta.success
    /\ res.records[1].meta.errors.list = <<NotNumberError("a")>>
    /\ res.records[1].data # <<>>
    /\ res.records[2].meta.success
    /\ res.records[2].data # <<>>

\* C3 as stated: with skipEmptyFields true, the targetField of every mapping
\* whose raw value is absent, null or '' is not a key of the record's data.
C3_SkippedTargetNeverAKey ==
    Imported /\ validConfig.options.skipEmptyFields =>
        \A j \in RecordIndexes : \A k \in MappingIndexes :
            IsEmpty(RawValue(j, k)) =>
                ~HasKey(res.records[j].data, validConfig.fieldMappings[k].targetField)

\* C3 amended: with skipEmptyFields true, a mapping whose raw value is
\* absent, null or '' writes nothing.  Its targetField is a key of the
\* record's data only when some mapping with the same targetField has a
\* non-empty raw value, and data then holds the value produced by the last
\* such mapping (never a null or an absent value put there by the skipped one).
C3_SkippedMappingWritesNothing ==
    Imported /\ validConfig.options.skipEmptyFields =>
        \A j \in RecordIndexes : \A k \in MappingIndexes :
            IsEmpty(RawValue(j, k)) =>
                LET target == validConfig.fieldMappings[k].targetField
                    others == {m \in MappingIndexes :
                                  /\ validConfig.fieldMappings[m].targetField = target
                                  /\ ~IsEmpty(RawValue(j, m))}
                IN HasKey(res.records[j].data, target) =>
                        /\ others # {}
                        /\ Get(res.records[j].data, target) = Produced(j, LastOf(others))

\* a skipped mapping whose target holds the value of an earlier mapping
C3_Witness ==
    /\ Imported
    /\ validConfig.options.skipEmptyFields
    /\ \E j \in RecordIndexes : \E k, m \in MappingIndexes :
          /\ k < m
          /\ validConfig.fieldMappings[k].targetField = validConfig.fieldMappings[m].targetField
          /\ ~IsEmpty(RawValue(j, k))
          /\ IsEmpty(RawValue(j, m))
          /\ HasKey(res.records[j].data, validConfig.fieldMappings[m].targetField)
          /\ Get(res.records[j].data, validConfig.fieldMappings[m].targetField) = Produced(j, k)

\* C4 as stated: for every pair of entries that share a targetField,
\* data[targetField] is the value produced by the entry that comes last.
C4_LastEntryWins ==
    Imported =>
        \A j \in RecordIndexes : \A k, m \in MappingIndexes :
            (k < m /\ validConfig.fieldMappings[k].targetField = validConfig.fieldMappings[m].targetField) =>
                LET target == validConfig.fieldMappings[m].targetField
                    sharing == {n \in MappingIndexes : validConfig.fieldMappings[n].targetField = target}
                IN Get(res.records[j].data, target) = Produced(j, LastOf(sharing))

\* C4 amended: for every pair of entries that share a targetField, the
\* value data holds under that key is the one produced by the last entry in
\* list order that is not skipped (with skipEmptyFields false no entry is
\* skipped, so it is the last entry); when every entry for that targetField
\* is skipped the field is not a key of data.
C4_LastWriteWins ==
    Imported =>
        \A j \in RecordIndexes : \A k, m \in MappingIndexes :
            (k < m /\ validConfig.fieldMappings[k].targetField = validConfig.fieldMappings[m].targetField) =>
                LET target == validConfig.fieldMappings[m].targetField
                IN /\ Writers(j, target) = {} => ~HasKey(res.records[j].data, target)
                   /\ HasKey(res.records[j].data, target) =>
                         Get(res.records[j].data, target) = Produced(j, LastOf(Writers(j, target)))

\* two entries share a target and produce different values; the later one
\* is in data
C4_Witness ==
    /\ Imported
    /\ \E j \in RecordIndexes : \E k, m \in MappingIndexes :
          /\ k < m
          /\ validConfig.fieldMappings[k].targetField = validConfig.fieldMappings[m].targetField
          /\ ~Skipped(j, k) /\ ~Skipped(j, m)
          /\ Produced(j, k) # Produced(j, m)
          /\ HasKey(res.records[j].data, validConfig.fieldMappings[m].targetField)
          /\ Get(res.records[j].data, validConfig.fieldMappings[m].targetField) = Produced(j, m)

\* C5 vocabulary: for every mapping with transform 'number' whose raw value
\* is non-numeric text and whose targetField is among the targets looked at,
\* the record fails, has one error naming the sourceField per failing
\* mapping of that field, and data[targetField] is 0 unless a later mapping
\* overwrites it
NumberFallbackZero(targets) ==
    Imported =>
        \A j \in RecordIndexes : \A k \in MappingIndexes :
            (NumberFails(j, k) /\ RawValue(j, k).t = "string"
             /\ validConfig.fieldMappings[k].targetField \in targets) =>
                LET mapping == validConfig.fieldMappings[k]
                IN /\ ~res.records[j].meta.success
                   /\ res.records[j].meta.errors.defined
                   /\ Count(res.records[j].meta.errors.list, NotNumberError(mapping.sourceField))
                         = Cardinality({m \in MappingIndexes :
                                /\ NumberFails(j, m)
                                /\ validConfig.fieldMappings[m].sourceField = mapping.sourceField})
                   /\ LastOf(Writers(j, mapping.targetField)) = k =>
                         /\ HasKey(res.records[j].data, mapping.targetField)
                         /\ Get(res.records[j].data, mapping.targetField) = Num(0)
TargetFields == {validConfig.fieldMappings[k].targetField : k \in MappingIndexes}

\* C5 as stated: a mapping with transform 'number' on non-numeric text makes
\* the record fail, adds one error naming its sourceField per such mapping
\* (as many entries for that field as there are failing mappings of it), and
\* stores 0 in data[targetField] (unless a later mapping overwrites it),
\* whatever the targetField.
C5_NumberFallbackZero == NumberFallbackZero(TargetFields)

\* C5: with the targetField __proto__ the record fails and the error is
\* recorded, but the 0 is not stored: data has no such key and
\* data["__proto__"] reads Object.prototype
C5_ProtoTargetStoresNothing ==
    /\ Imported
    /\ \E j \in RecordIndexes : \E k \in MappingIndexes :
          /\ NumberFails(j, k)
          /\ RawValue(j, k).t = "string"
          /\ validConfig.fieldMappings[k].targetField = "__proto__"
          /\ Writers(j, "__proto__") = {k}
          /\ ~res.records[j].meta.success
          /\ NotNumberError(validConfig.fieldMappings[k].sourceField)
                \in {res.records[j].meta.errors.list[e] : e \in 1..Len(res.records[j].meta.errors.list)}
          /\ ~HasKey(res.records[j].data, "__proto__")
          /\ Get(res.records[j].data, "__proto__") = Prototype("Object")

\* C5 for every targetField but __proto__: there the statement holds.
C5_OrdinaryTargetStoresZero == NumberFallbackZero(TargetFields \ {"__proto__"})

C5_Witness ==
    /\ Imported
    /\ \E j \in RecordIndexes : \E k \in MappingIndexes :
          /\ NumberFails(j, k)
          /\ RawValue(j, k) = Str(<<"a", "B">>)
          /\ Get(res.records[j].data, validConfig.fieldMappings[k].targetField) = Num(0)
          /\ res.records[j].meta.errors.list = <<NotNumberError("a")>>

\* C6 vocabulary: the required fields of the target schema, other than the
\* identifier `id`, that no mapping has as its targetField
SchemaMissing ==
    {f \in Members(REPOSITORY_SCHEMA[validConfig.targetRepository].required) \ {"id"} :
        \A k \in MappingIndexes : validConfig.fieldMappings[k].targetField # f}
CoverageRejected ==
    /\ res.hasValid /\ ~res.valid
    /\ \E e \in 1..Len(res.errors) : res.errors[e].message.kind = "Missing required target field"
ShapeAccepted == pc = "done" /\ validConfig # NoValidConfig

\* C6: for a shape-valid configuration the answer is valid:false for missing
\* required fields iff validateRequired is true and a required field other
\* than `id` is mapped by no entry; the errors are then exactly one per
\* missing field, each with path "fieldMappings" and naming the field; with
\* validateRequired false the import proceeds to the parse step.
C6_CoverageValidation ==
    ShapeAccepted =>
        /\ CoverageRejected <=>
              (validConfig.options.validateRequired /\ SchemaMissing # {})
        /\ CoverageRejected =>
              /\ Len(res.errors) = Cardinality(SchemaMissing)
              /\ {res.errors[e].message.subject : e \in 1..Len(res.errors)} = SchemaMissing
              /\ \A e \in 1..Len(res.errors) :
                    /\ res.errors[e].path = "fieldMappings"
                    /\ res.errors[e].message.kind = "Missing required target field"
        /\ ~validConfig.options.validateRequired =>
              \/ res.hasValid /\ res.valid
              \/ res.hasValid /\ ~res.valid /\ res.errors[1].path = "sourceFile"
              \/ res.status = 500

C6_Witness ==
    /\ ShapeAccepted
    /\ CoverageRejected
    /\ Len(res.errors) = 2
    /\ validConfig.fieldMappings # <<>>

\* C8 vocabulary: the shape contract of a candidate configuration
ShapeOK(candidate) ==
    /\ candidate.name.ty = "string"
    /\ candidate.sourceType.ty = "string" /\ candidate.sourceType.v \in {"csv", "json"}
    /\ candidate.targetRepository.ty = "string"
    /\ candidate.targetRepository.v \in {"users", "products", "orders"}
    /\ candidate.idField.ty = "string"
    /\ \A k \in 1..Len(candidate.fieldMappings) :
          /\ candidate.fieldMappings[k].sourceField.ty = "string"
          /\ candidate.fieldMappings[k].targetField.ty = "string"
          /\ \/ candidate.fieldMappings[k].transform.ty = "undefined"
             \/ /\ candidate.fieldMappings[k].transform.ty = "string"
                /\ candidate.fieldMappings[k].transform.v
                      \in {"none", "uppercase", "lowercase", "trim", "number"}
    /\ candidate.options.skipEmptyFields.ty = "boolean"
    /\ candidate.options.validateRequired.ty = "boolean"
ValidationFailed ==
    /\ res.hasValid /\ ~res.valid
    /\ \A e \in 1..Len(res.errors) : res.errors[e].path # "sourceFile"

\* C8: validation comes first and in two ordered passes.  Coverage errors
\* are reported only for a candidate without shape violation; a candidate
\* with a shape violation never reaches the coverage pass; a response with
\* valid:false has a non-empty error list, no summary and no records; when
\* validation failed nothing was parsed or transformed; and records are
\* transformed only for a configuration that passed both passes.
C8_ValidationFirst ==
    /\ CoverageRejected => ShapeOK(req.config)
    /\ (req.hasConfig /\ ~ShapeOK(req.config)) => (pc \in {"idle", "request", "done"} /\ validConfig = NoValidConfig)
    /\ (res.hasValid /\ ~res.valid) =>
          (res.errors # <<>> /\ ~res.hasSummary /\ ~res.hasRecords)
    /\ ValidationFailed =>
          (pc = "done" /\ sourceRecords = <<>> /\ records = <<>> /\ index = 0)
    /\ (pc = "import" \/ res.hasRecords) =>
          /\ ShapeOK(req.config)
          /\ validConfig.options.validateRequired => SchemaMissing = {}

C8_Witness ==
    /\ pc = "done"
    /\ CoverageRejected
    /\ req.sourceFile.kind = "text"
    /\ Len(parseCSV(req.sourceFile.text)) > 0

\* C9 vocabulary: a response without its importedAt stamps
Unstamped(r) ==
    [r EXCEPT !.summary.importedAt = 0,
              !.records = [k \in 1..Len(r.records) |->
                              [r.records[k] EXCEPT !.meta.importedAt = 0]]]

\* C9 for the responses alone
C9_SameResponse ==
    (pc = "done" /\ calls >= 2 /\ prev.req = req) => Unstamped(res) = Unstamped(prev.res)

\* C9: the same configuration and source submitted again get the same
\* response (valid flag, error list, records with the same id, type, data,
\* sourceIndex, success and errors); only importedAt may differ.  No state
\* left by a call influences a later one: the registry, which every
\* activation reads and which outlives it, is as the module built it, also
\* when another request was served between the two submissions.
C9_Determinism ==
    /\ registry = REPOSITORY_SCHEMA
    /\ C9_SameResponse

\* the second submission of an import of two failed records has been
\* answered, at another time than the first, after an import into another
\* repository from another source was served in between
C9_Witness ==
    /\ pc = "done"
    /\ calls = 2
    /\ prev.req = req
    /\ prev.other \in Interleaved
    /\ prev.other.config.targetRepository = CStr("products")
    /\ prev.other.sourceFile.kind = "text"
    /\ req.sourceFile.kind = "json"
    /\ res.hasSummary
    /\ res.summary.importedAt # prev.res.summary.importedAt
    /\ errors # <<>>
    /\ \E j \in RecordIndexes :
          /\ ~res.records[j].meta.success
          /\ res.records[j].id = <<"u","n","k","n","o","w","n","-">> \o NatToChars(j - 1)

\* C10 as stated: id is the string form of sourceRecord[idField] whenever
\* that value is present and neither null nor '', the placeholder
\* "unknown-<i>" exactly when it is absent, null or '', and that case adds
\* one missing-identifier error.
C10_IdDerivation ==
    Imported =>
        \A j \in RecordIndexes :
            /\ ~IsEmpty(RawId(j)) => res.records[j].id = String(RawId(j))
            /\ IsEmpty(RawId(j)) <=>
                  res.records[j].id = <<"u","n","k","n","o","w","n","-">> \o NatToChars(j - 1)
            /\ IsEmpty(RawId(j)) =>
                  Count(res.records[j].meta.errors.list, MissingIdError(validConfig.idField)) = 1

\* C7 vocabulary (sourceData variant): the handler answered a shape-valid
\* configuration whose targetRepository is not a key of the registry
UnknownRepositoryAnswered ==
    /\ pc = "done"
    /\ validConfig # NoSourceDataConfig
    /\ validConfig.targetRepository \notin {"users", "products", "orders"}

\* C7 as stated: a configuration whose targetRepository is not a key of the
\* registry is answered valid:false with a single error, on targetRepository,
\* whose message lists users, products, orders; no records are produced.
C7_UnknownRepositoryRejected ==
    UnknownRepositoryAnswered =>
        /\ res.hasValid /\ ~res.valid
        /\ Len(res.errors) = 1
        /\ res.errors[1].path = "targetRepository"
        /\ res.errors[1].message.options = <<"users", "products", "orders">>
        /\ ~res.hasRecords /\ ~res.hasSummary
        /\ records = <<>>

\* C7 for the names that Object.prototype does not define: there the
\* statement holds.
C7_UnknownOwnNameRejected ==
    (UnknownRepositoryAnswered /\ validConfig.targetRepository \notin ObjectPrototypeKeys) =>
        /\ res.hasValid /\ ~res.valid
        /\ Len(res.errors) = 1
        /\ res.errors[1].path = "targetRepository"
        /\ res.errors[1].message.options = <<"users", "products", "orders">>
        /\ ~res.hasRecords /\ ~res.hasSummary
        /\ records = <<>>

C7_InheritedNameAnswered500 ==
    /\ UnknownRepositoryAnswered
    /\ validConfig.targetRepository = "constructor"
    /\ res.status = 500
    /\ ~res.hasValid

\* C11: for every standardized record, success is true iff its error list
\* is empty, i.e. iff no number transform failed on a mapping that was not
\* skipped and its identifier was not absent, null or ''; a record with
\* success true carries no errors.
C11_SuccessIffNoErrors ==
    Imported =>
        \A j \in RecordIndexes :
            /\ res.records[j].meta.success <=> res.records[j].meta.errors.list = <<>>
            /\ res.records[j].meta.success <=> ~HasLocalFailure(j)
            /\ res.records[j].meta.success => ~res.records[j].meta.errors.defined
            /\ ~res.records[j].meta.success => res.records[j].meta.errors.defined

C11_Witness ==
    /\ Imported
    /\ \E j, k \in RecordIndexes :
          /\ res.records[j].meta.success
          /\ res.records[j].data # <<>>
          /\ ~res.records[k].meta.success
          /\ IsEmpty(RawId(k))
          /\ res.records[k].meta.errors.list = <<MissingIdError(validConfig.idField)>>

\* C12 vocabulary: the source sequence, read off the request
SourceOfRequest == parseSourceFile(req.sourceFile, validConfig.sourceType)

\* C12: the returned sequence has one standardized record per parsed source
\* record, in source order: the k-th record has sourceIndex k (zero-based),
\* is built from the k-th source record and has the configuration's
\* targetRepository as its type.
C12_OneRecordPerSourceRecord ==
    /\ pc = "import" =>
          /\ Len(records) = index
          /\ \A k \in 1..Len(records) : records[k].meta.sourceIndex = k - 1
    /\ Imported =>
          LET source == SourceOfRequest
              raw(k, w) == readField(source[k], validConfig.fieldMappings[w].sourceField)
          IN /\ Len(res.records) = Len(source)
             /\ res.summary.totalRecords = Len(source)
             /\ \A k \in RecordIndexes :
                   /\ res.records[k].meta.sourceIndex = k - 1
                   /\ res.records[k].type = req.config.targetRepository.v
                   /\ res.records[k].id
                         = idString(readField(source[k], validConfig.idField), k - 1)
                   /\ \A m \in MappingIndexes :
                         LET target == validConfig.fieldMappings[m].targetField
                         IN HasKey(res.records[k].data, target) =>
                               \E w \in MappingIndexes :
                                   /\ validConfig.fieldMappings[w].targetField = target
                                   /\ Get(res.records[k].data, target)
                                         \in {raw(k, w),
                                              applyTransform(raw(k, w),
                                                  validConfig.fieldMappings[w].transform)}

C12_Witness ==
    /\ Imported
    /\ Len(res.records) = 2
    /\ res.records[1].data # res.records[2].data
    /\ res.records[1].data # <<>>
    /\ res.records[2].meta.sourceIndex = 1

\* C13: importedAt is captured once, before the first record is processed:
\* every returned record carries the same importedAt, equal to the summary's.
C13_SharedImportedAt ==
    /\ pc = "import" => \A k \in 1..Len(records) : records[k].meta.importedAt = importedAt
    /\ Imported =>
          \A k \in RecordIndexes : res.records[k].meta.importedAt = res.summary.importedAt

C13_Witness ==
    /\ Imported
    /\ Len(res.records) = 2
    /\ now # res.summary.importedAt
    /\ res.records[2].meta.importedAt = res.summary.importedAt

\* C14 vocabulary: the CSV text of the request as the claim reads it.  The
\* lines are those of the text without its surrounding whitespace.
CsvParsed ==
    /\ validConfig.sourceType = "csv"
    /\ req.sourceFile.kind = "text"
    /\ pc = "import" \/ (pc = "done" /\ res.hasValid /\ res.valid)
CsvLines == split(trim(req.sourceFile.text), "\n")
CsvCells(line) ==
    LET cells == split(line, ",") IN [v \in 1..Len(cells) |-> trim(cells[v])]
CsvHeaders == CsvCells(CsvLines[1])
LastOccurrence(j) ==
    LastOf({h \in 1..Len(CsvHeaders) : CsvHeaders[h] = CsvHeaders[j]})

\* C14 as stated: the first line is the header row, every later line
\* yields one record in line order, names and values are split on ',' and
\* trimmed, every record maps the j-th header name to the j-th value of its
\* line ('' when the line has no j-th value), and its keys are exactly the
\* header names.
C14_CsvPositional ==
    (CsvParsed /\ Len(CsvLines) >= 2) =>
        LET lines == CsvLines
            headers == CsvCells(lines[1])
            names == [j \in 1..Len(headers) |-> AsName(headers[j])]
            rows == [i \in 1..(Len(lines) - 1) |-> CsvCells(lines[i + 1])]
            cell(i, j) == Str(IF j <= Len(rows[i]) THEN rows[i][j] ELSE <<>>)
        IN /\ Len(sourceRecords) = Len(lines) - 1
           /\ \A i \in 1..Len(sourceRecords) :
                 /\ sourceRecords[i].k = "object"
                 /\ Keys(sourceRecords[i].entries) = {names[j] : j \in 1..Len(names)}
                 /\ \A j \in 1..Len(names) :
                       Get(sourceRecords[i].entries, names[j]) = cell(i, j)

\* C14: the header name __proto__ gives the record no key, and reading it
\* gives Object.prototype, not the value of the line
C14_ProtoHeaderDropped ==
    /\ CsvParsed
    /\ Len(CsvLines) >= 2
    /\ \E j \in 1..Len(CsvHeaders) :
          /\ AsName(CsvHeaders[j]) = "__proto__"
          /\ CsvCells(CsvLines[2])[j] = <<"k">>
          /\ ~HasKey(sourceRecords[1].entries, "__proto__")
          /\ Get(sourceRecords[1].entries, "__proto__") = Prototype("Object")

\* C14 for the header names other than __proto__: the statement holds with
\* the j-th value replaced by the value at the position of the last
\* occurrence of the name in the header row (the j-th value for a name that
\* occurs once).
C14_CsvPositionalLastOccurrence ==
    (CsvParsed /\ Len(CsvLines) >= 2) =>
        LET lines == CsvLines
            headers == CsvCells(lines[1])
            names == [j \in 1..Len(headers) |-> AsName(headers[j])]
            rows == [i \in 1..(Len(lines) - 1) |-> CsvCells(lines[i + 1])]
            cell(i, j) == Str(IF j <= Len(rows[i]) THEN rows[i][j] ELSE <<>>)
            last == [j \in 1..Len(names) |->
                        LastOf({h \in 1..Len(names) : names[h] = names[j]})]
        IN /\ Len(sourceRecords) = Len(lines) - 1
           /\ \A i \in 1..Len(sourceRecords) :
                 /\ sourceRecords[i].k = "object"
                 /\ Keys(sourceRecords[i].entries) = {names[j] : j \in 1..Len(names)} \ {"__proto__"}
                 /\ \A j \in 1..Len(names) :
                       Ordinary(names[j]) =>
                           Get(sourceRecords[i].entries, names[j]) = cell(i, last[j])

C14_Witness ==
    /\ CsvParsed
    /\ Len(sourceRecords) = 1
    /\ \E j \in 1..Len(CsvHeaders) : LastOccurrence(j) # j
    /\ Len(CsvCells(CsvLines[2])) < Len(CsvHeaders)
    /\ Get(sourceRecords[1].entries, "a") = Str(<<>>)
    /\ Get(sourceRecords[1].entries, "i") = Str(<<"7">>)

\* C15 vocabulary: the handler answered a CSV request whose configuration
\* passed validation; the lines of the text that hold more than whitespace
CsvAnswered ==
    /\ pc = "done"
    /\ validConfig.sourceType = "csv"
    /\ req.sourceFile.kind = "text"
    /\ ~CoverageRejected
TextLines == split(req.sourceFile.text, "\n")
NonEmptyLines == {k \in 1..Len(TextLines) : trim(TextLines[k]) # <<>>}

\* C15: a CSV text with fewer than 2 non-empty lines parses to the empty
\* sequence and raises no error: the response is valid with no records.
C15_CsvFewerThanTwoLines ==
    (CsvAnswered /\ Cardinality(NonEmptyLines) < 2) =>
        /\ sourceRecords = <<>>
        /\ res.status = 200 /\ res.hasValid /\ res.valid
        /\ ~res.hasErrors
        /\ res.hasRecords /\ res.records = <<>>

C15_Witness ==
    /\ CsvAnswered
    /\ Cardinality(NonEmptyLines) = 1
    /\ Len(TextLines) = 3
    /\ res.valid
    /\ res.hasRecords /\ res.records = <<>>

\* C16 vocabulary: a JSON document was parsed for a validated configuration
ParsedDocument == JSONparse(req.sourceFile)
JsonParsed ==
    /\ validConfig.sourceType = "json"
    /\ \/ pc = "import"
       \/ pc = "done" /\ (res.status = 500 \/ (res.hasValid /\ res.valid))
ArrayKeys == {k \in 1..Len(ParsedDocument.entries) : ParsedDocument.entries[k].isArray}
FirstOf(S) == CHOOSE k \in S : \A m \in S : k <= m

\* C16: a JSON array yields its elements, in order, as the source records;
\* a JSON object yields the value of the first key, in key enumeration
\* order, whose value is an array, whatever array-valued keys follow.
C16_JsonArrayOrFirstArrayKey ==
    JsonParsed =>
        /\ ParsedDocument.k = "array" => sourceRecords = ParsedDocument.items
        /\ (ParsedDocument.k = "object" /\ ArrayKeys # {}) =>
              sourceRecords = ParsedDocument.entries[FirstOf(ArrayKeys)].items

C16_Witness ==
    /\ JsonParsed
    /\ ParsedDocument.k = "object"
    /\ Cardinality(ArrayKeys) = 2
    /\ 1 \notin ArrayKeys
    /\ Len(sourceRecords) = 1
    /\ Len(ParsedDocument.entries[LastOf(ArrayKeys)].items) = 2

\* C17 vocabulary: the handler answered a JSON request whose configuration
\* passed validation; the source is valid JSON; its parsed value is neither
\* an array nor an object with an array-valued key
JsonAnswered ==
    /\ pc = "done"
    /\ validConfig.sourceType = "json"
    /\ ~CoverageRejected
ValidJson == ~JSONparseThrows(req.sourceFile)
ParseFailureReported ==
    /\ res.hasValid /\ ~res.valid
    /\ \E e \in 1..Len(res.errors) : res.errors[e].path = "sourceFile"
WholeValue ==
    CASE ParsedDocument.k = "scalar" -> ScalarRecord(ParsedDocument.val)
      [] ParsedDocument.k = "null" -> NullRecord
      [] OTHER -> ObjectRecord([k \in 1..Len(ParsedDocument.entries) |->
                      [key |-> ParsedDocument.entries[k].key,
                       val |-> ParsedDocument.entries[k].val]])
NoArrayInside ==
    \/ ParsedDocument.k \in {"scalar", "null"}
    \/ ParsedDocument.k = "object" /\ ArrayKeys = {}

\* C17 as stated: for valid JSON whose parsed value is not an array and has
\* no array-valued key (an object without arrays, a number, a string, a
\* boolean or null) the parser succeeds and returns the one-element sequence
\* holding the whole value; a parse failure is reported only for text that
\* is not valid JSON.
C17_JsonWholeValueWrapped ==
    JsonAnswered =>
        /\ (ValidJson /\ NoArrayInside) =>
              /\ ~ParseFailureReported
              /\ sourceRecords = <<WholeValue>>
        /\ ParseFailureReported => ~ValidJson

\* C17: the text `null` is valid JSON and is answered with a parse failure
C17_NullReportedAsParseFailure ==
    /\ JsonAnswered
    /\ req.sourceFile.kind = "json"
    /\ ParsedDocument.k = "null"
    /\ ParseFailureReported
    /\ sourceRecords = <<>>

\* C17 for every parsed value but null: there the statement holds.
C17_JsonNonNullWrapped ==
    (JsonAnswered /\ ~(ValidJson /\ ParsedDocument.k = "null")) =>
        /\ (ValidJson /\ NoArrayInside) =>
              /\ ~ParseFailureReported
              /\ sourceRecords = <<WholeValue>>
        /\ ParseFailureReported => ~ValidJson

\* C18: with sourceType json and a text that is not valid JSON the import is
\* aborted although the configuration is valid: valid:false with a single
\* error, on path "sourceFile", no summary and no records.
C18_MalformedJsonAborts ==
    (JsonAnswered /\ ~ValidJson) =>
        /\ res.status = 200 /\ res.hasValid /\ ~res.valid
        /\ res.hasErrors /\ Len(res.errors) = 1
        /\ res.errors[1].path = "sourceFile"
        /\ res.errors[1].message.kind = "Failed to parse"
        /\ ~res.hasSummary /\ ~res.hasRecords
        /\ sourceRecords = <<>> /\ records = <<>>

C18_Witness ==
    /\ JsonAnswered
    /\ ~ValidJson
    /\ Len(split(req.sourceFile.text, "\n")) = 3
    /\ res.errors[1].path = "sourceFile"

\* C19 vocabulary: the handler answered a request whose configuration
\* passed validation and whose source parses, without error, to no record
EmptySourceAnswered ==
    /\ pc = "done"
    /\ validConfig # NoValidConfig
    /\ ~CoverageRejected
    /\ ~parseSourceFileThrows(req.sourceFile, validConfig.sourceType)
    /\ parseSourceFile(req.sourceFile, validConfig.sourceType) = <<>>

\* C19 as stated: an empty parsed source is reported valid, with an empty
\* record sequence and a summary whose totalRecords, successfulImports and
\* failedImports are 0.
C19_EmptySourceSummary ==
    EmptySourceAnswered =>
        /\ res.hasValid /\ res.valid
        /\ res.hasRecords /\ res.records = <<>>
        /\ res.hasSummary
        /\ res.summary.totalRecords = 0
        /\ res.summary.successfulImports = 0
        /\ res.summary.failedImports = 0

\* C19, amended: an empty parsed source is reported valid (no error list),
\* with an empty record sequence and the message "Source file parsed but
\* contains no records."; the response carries no summary.
C19_EmptySourceMessage ==
    EmptySourceAnswered =>
        /\ res.status = 200 /\ res.hasValid /\ res.valid
        /\ ~res.hasErrors
        /\ res.hasRecords /\ res.records = <<>>
        /\ res.message = "Source file parsed but contains no records."
        /\ ~res.hasSummary

C19_Witness ==
    /\ EmptySourceAnswered
    /\ req.sourceFile.kind = "json"
    /\ ParsedDocument.k = "object"
    /\ res.valid
    /\ res.hasRecords
    /\ ~res.hasSummary

\* C20 vocabulary: the handler answered a request that has a configuration
\* passing both validation passes and has no source payload
ValidCandidate ==
    /\ req.hasConfig
    /\ ShapeOK(req.config)
    /\ req.config.options.validateRequired.v = "true" =>
          \A f \in Members(REPOSITORY_SCHEMA[req.config.targetRepository.v].required) \ {"id"} :
              \E k \in 1..Len(req.config.fieldMappings) :
                  req.config.fieldMappings[k].targetField.v = f
NoPayloadAnswered ==
    /\ pc = "done"
    /\ ValidCandidate
    /\ req.sourceFile.kind = "absent"

\* C20 as stated: a valid configuration without source payload is not
\* rejected: the answer is valid:true with a configuration summary and no
\* records.
C20_DryValidate ==
    NoPayloadAnswered =>
        /\ res.status = 200
        /\ res.hasValid /\ res.valid
        /\ ~res.hasRecords

\* C20, amended for the sourceFile handler: a request without sourceFile
\* (or with an empty one) is rejected with status 400 and the error
\* "sourceFile is required and must be a string" before the configuration
\* is looked at; the body has no valid flag, no summary and no records.
C20_NoPayloadRejected ==
    (pc = "done" /\ req.hasConfig
        /\ (req.sourceFile.kind = "absent"
            \/ (req.sourceFile.kind = "text" /\ req.sourceFile.text = <<>>))) =>
        /\ res.status = 400
        /\ res.error = "sourceFile is required and must be a string"
        /\ ~res.hasValid /\ ~res.hasErrors /\ ~res.hasSummary /\ ~res.hasRecords
        /\ validConfig = NoValidConfig

C20_Witness ==
    /\ NoPayloadAnswered
    /\ res.status = 400
    /\ ~res.hasValid

\* C20 in the sourceData variant: a valid configuration without a
\* sourceData array is answered valid:true with the configuration summary
\* (name, target repository, mapped target fields) and no records.
C20_DryValidateSourceData ==
    (pc = "done" /\ validConfig # NoSourceDataConfig
        /\ validConfig.targetRepository \in {"users", "products", "orders"}
        /\ (validConfig.options.validateRequired =>
                \A f \in Members(REPOSITORY_SCHEMA[validConfig.targetRepository].required) :
                    \E k \in MappingIndexes : validConfig.fieldMappings[k].targetField = f)
        /\ req.sourceData.kind # "array") =>
        /\ res.status = 200 /\ res.hasValid /\ res.valid
        /\ res.hasConfigSummary
        /\ res.configSummary.name = req.config.name.v
        /\ res.configSummary.targetRepository = req.config.targetRepository.v
        /\ res.configSummary.mappedFields
              = [k \in MappingIndexes |-> req.config.fieldMappings[k].targetField.v]
        /\ ~res.hasRecords /\ ~res.hasSummary /\ ~res.hasErrors

\* C22 vocabulary (order variant): the fields the README lists as required
\* next to orderId; the handler answered a shape-valid configuration
ReadmeRequiredFields == {"customerId", "customerEmail", "totalAmount", "currency", "status"}
OrderConfigAnswered == pc = "done" /\ validConfig # NoOrderConfig
UnmappedReadmeFields ==
    {f \in ReadmeRequiredFields :
        \A k \in MappingIndexes : validConfig.fieldMappings[k].targetField # f}

\* C22 as stated: with validateRequired true, a configuration that does not
\* map one of customerId, customerEmail, totalAmount, currency or status is
\* rejected with valid:false and a 'Missing required target field' error
\* for that field.
C22_OrderRequiredFields ==
    (OrderConfigAnswered /\ validConfig.options.validateRequired) =>
        \A f \in UnmappedReadmeFields :
            /\ res.hasValid /\ ~res.valid
            /\ \E e \in 1..Len(res.errors) :
                  /\ res.errors[e].message.kind = "Missing required target field"
                  /\ res.errors[e].message.subject = f

\* C22: a configuration with validateRequired true that maps none of the
\* five fields is imported
C22_UnmappedFieldsImported ==
    /\ OrderConfigAnswered
    /\ validConfig.options.validateRequired
    /\ UnmappedReadmeFields = ReadmeRequiredFields
    /\ res.hasValid /\ res.valid
    /\ res.hasSummary
    /\ res.records # <<>>

\* C27 as stated (order variant): the orderId of every output order is the
\* identifier derived from idField, the string form of sourceRecord[idField]
\* or the positional placeholder, whatever fieldMappings contains.
C27_OrderIdFromIdField ==
    (OrderConfigAnswered /\ res.hasSummary) =>
        \A j \in RecordIndexes :
            Get(res.records[j].order, "orderId")
                \in {Str(String(RawId(j))),
                     Str(<<"u","n","k","n","o","w","n","-">> \o NatToChars(j - 1))}

\* C27: a mapping with targetField 'orderId' replaced the identifier
C27_OrderIdOverwritten ==
    /\ OrderConfigAnswered
    /\ res.hasSummary
    /\ \E j \in RecordIndexes :
          /\ RawId(j) = Str(<<"7">>)
          /\ Get(res.records[j].order, "orderId") # Str(<<"7">>)
          /\ res.records[j].success

\* C27 without a mapping to orderId: there the statement holds.
C27_OrderIdKeptWithoutMapping ==
    (OrderConfigAnswered /\ res.hasSummary
        /\ \A k \in MappingIndexes : validConfig.fieldMappings[k].targetField # "orderId") =>
        \A j \in RecordIndexes :
            Get(res.records[j].order, "orderId")
                \in {Str(String(RawId(j))),
                     Str(<<"u","n","k","n","o","w","n","-">> \o NatToChars(j - 1))}

\* C21 vocabulary: the dotted paths of the independent violations of a
\* candidate, one per offending field
ViolationPaths(candidate) ==
    {p \in {"name"} : candidate.name.ty # "string"}
    \cup {p \in {"sourceType"} :
            ~(candidate.sourceType.ty = "string" /\ candidate.sourceType.v \in {"csv", "json"})}
    \cup {p \in {"targetRepository"} :
            ~(candidate.targetRepository.ty = "string"
              /\ candidate.targetRepository.v \in {"users", "products", "orders"})}
    \cup {p \in {"idField"} : candidate.idField.ty # "string"}
    \cup UNION {
           {p \in {"fieldMappings." \o ToString(k - 1) \o ".sourceField"} :
               candidate.fieldMappings[k].sourceField.ty # "string"}
           \cup {p \in {"fieldMappings." \o ToString(k - 1) \o ".targetField"} :
               candidate.fieldMappings[k].targetField.ty # "string"}
           \cup {p \in {"fieldMappings." \o ToString(k - 1) \o ".transform"} :
               /\ candidate.fieldMappings[k].transform.ty # "undefined"
               /\ ~(candidate.fieldMappings[k].transform.ty = "string"
                    /\ candidate.fieldMappings[k].transform.v
                          \in {"none", "uppercase", "lowercase", "trim", "number"})}
           : k \in 1..Len(candidate.fieldMappings)}
    \cup {p \in {"options.skipEmptyFields"} : candidate.options.skipEmptyFields.ty # "boolean"}
    \cup {p \in {"options.validateRequired"} : candidate.options.validateRequired.ty # "boolean"}
ShapeAnswered ==
    pc = "done" /\ ~configMissing(req) /\ ~sourceFileMissing(req) /\ ~ShapeOK(req.config)

\* C21: shape validation is fail-slow.  A configuration with k independent
\* shape violations is answered valid:false with exactly k {path, message}
\* entries, one per violation, each with the dotted path of its field
\* (for example fieldMappings.0.transform).
C21_ShapeFailSlow ==
    ShapeAnswered =>
        LET paths == ViolationPaths(req.config)
        IN /\ res.hasValid /\ ~res.valid
           /\ Len(res.errors) = Cardinality(paths)
           /\ {res.errors[e].path : e \in 1..Len(res.errors)} = paths
           /\ ~res.hasSummary /\ ~res.hasRecords

C21_Witness ==
    /\ ShapeAnswered
    /\ Len(res.errors) = 6
    /\ \E e \in 1..Len(res.errors) : res.errors[e].path = "fieldMappings.0.transform"
    /\ \E e \in 1..Len(res.errors) : res.errors[e].path = "fieldMappings.1.sourceField"

\* C23 vocabulary: the mappings of record j whose number conversion fails,
\* in mapping order, and the errors they and the identifier check produce
FailingMappings(j) ==
    SelectSeq([k \in MappingIndexes |-> k], LAMBDA k : NumberFails(j, k))
ExpectedErrors(j) ==
    (IF IsEmpty(RawId(j)) THEN <<MissingIdError(validConfig.idField)>> ELSE <<>>)
    \o [e \in 1..Len(FailingMappings(j)) |->
          NotNumberError(validConfig.fieldMappings[FailingMappings(j)[e]].sourceField)]

\* What holds of the records of a finished import: after a mapping whose
\* number conversion yields NaN, the later mappings of that record are
\* processed and written to data as they are after a mapping that succeeds
\* (the key holds what its last mapping produced; an assignment to
\* __proto__ does the same in either case), and the record's error list
\* holds one entry per failing mapping, in mapping order, after the
\* missing-identifier error if there is one.
FieldIndependence ==
    Imported =>
        \A j \in RecordIndexes :
            /\ res.records[j].meta.errors.list = ExpectedErrors(j)
            /\ \A k, m \in MappingIndexes :
                  (k < m /\ NumberFails(j, k) /\ ~Skipped(j, m)) =>
                      LET target == validConfig.fieldMappings[m].targetField
                      IN /\ Ordinary(target) => HasKey(res.records[j].data, target)
                         /\ HasKey(res.records[j].data, target) =>
                               Get(res.records[j].data, target) = Produced(j, LastOf(Writers(j, target)))

\* C23 as stated: fields are independent within a record.  After a mapping
\* fails its number conversion every later entry of fieldMappings is still
\* processed for that record: the record is built, with the later values in
\* data and one error per failing mapping.
C23_FieldIndependence ==
    /\ FieldIndependence
    /\ Aborted =>
          \A k, m \in MappingIndexes : ~(k < m /\ NumberThrows(index + 1, k) /\ ~Skipped(index + 1, m))

\* C23: the first mapping's number conversion throws on the second record;
\* its second mapping, whose value is present, is never processed and no
\* record is built for it
C23_LaterMappingNotProcessed ==
    /\ Aborted
    /\ Len(validConfig.fieldMappings) = 2
    /\ Len(sourceRecords) = 2
    /\ index = 1
    /\ NumberThrows(2, 1)
    /\ ~Skipped(2, 2)
    /\ RawValue(2, 2) = Str(<<"x">>)
    /\ Len(records) = 1
    /\ ~res.hasRecords

\* C23 for the conversions that yield NaN: there the statement holds.
C23_FieldIndependenceWhenConverted == FieldIndependence

\* a record without identifier whose first mapping fails and whose second
\* mapping is written
C23_Witness ==
    /\ Imported
    /\ Len(validConfig.fieldMappings) = 2
    /\ \E j \in RecordIndexes :
          /\ IsEmpty(RawId(j))
          /\ NumberFails(j, 1)
          /\ ~Skipped(j, 2)
          /\ validConfig.fieldMappings[2].targetField # validConfig.fieldMappings[1].targetField
          /\ res.records[j].meta.errors.list
                = <<MissingIdError(validConfig.idField), NotNumberError("a")>>
          /\ Get(res.records[j].data, validConfig.fieldMappings[2].targetField) = Produced(j, 2)
          /\ Get(res.records[j].data, validConfig.fieldMappings[1].targetField) = Num(0)

\* two failing mappings of different source fields, reported in mapping order
C23_WitnessOrder ==
    /\ Imported
    /\ \E j \in RecordIndexes :
          res.records[j].meta.errors.list
              = <<MissingIdError(validConfig.idField), NotNumberError("b"), NotNumberError("a")>>

\* C24 vocabulary: the handler answered a configuration that passed both
\* validation passes
ConfigAnswered == pc = "done" /\ validConfig # NoValidConfig /\ ~CoverageRejected

\* C24 as stated: for every shape- and coverage-valid configuration and
\* every source text that parses (JSON arrays with null, scalar or nested
\* array elements included) the import ends with valid:true and one record
\* per parsed element, the element's problems being in that record's errors;
\* it never ends in the generic 'Failed to execute config' outcome.
C24_NoUnstructuredFailure ==
    (ConfigAnswered /\ ~parseSourceFileThrows(req.sourceFile, validConfig.sourceType)) =>
        LET source == SourceOfRequest
        IN /\ res.status = 200
           /\ res.error # "Failed to execute config"
           /\ res.hasValid /\ res.valid
           /\ source # <<>> =>
                 /\ res.hasRecords
                 /\ Len(res.records) = Len(source)
                 /\ \A j \in RecordIndexes : res.records[j].meta.errors.list = ExpectedErrors(j)

\* C24: a JSON array with a null element parses and is answered with the
\* generic failure, without records
C24_NullElementUnstructured ==
    /\ ConfigAnswered
    /\ ~parseSourceFileThrows(req.sourceFile, validConfig.sourceType)
    /\ \E j \in 1..Len(sourceRecords) : sourceRecords[j] = NullRecord
    /\ \E j \in 1..Len(sourceRecords) : sourceRecords[j].k = "object"
    /\ res.status = 500
    /\ res.error = "Failed to execute config"
    /\ ~res.hasValid /\ ~res.hasRecords

\* C24 for sources without a null element and without a value whose
\* conversion throws, under configurations that leave the prototype of data
\* alone (no targetField __proto__): there the statement holds.
C24_StructuredWithoutThrow ==
    (ConfigAnswered /\ ~parseSourceFileThrows(req.sourceFile, validConfig.sourceType)) =>
        LET source == SourceOfRequest
            plain(j) == /\ source[j] # NullRecord
                        /\ ~ToPrimitiveThrows(readField(source[j], validConfig.idField))
                        /\ \A k \in MappingIndexes :
                              ~ToPrimitiveThrows(readField(source[j], validConfig.fieldMappings[k].sourceField))
        IN ((\A j \in 1..Len(source) : plain(j))
            /\ \A k \in MappingIndexes : Ordinary(validConfig.fieldMappings[k].targetField)) =>
              /\ res.status = 200
              /\ res.hasValid /\ res.valid
              /\ source # <<>> =>
                    /\ res.hasRecords
                    /\ Len(res.records) = Len(source)
                    /\ \A j \in RecordIndexes : res.records[j].meta.errors.list = ExpectedErrors(j)

\* C26 vocabulary: record j has the positional placeholder as its id and
\* the identifier field did not spell it
FallbackId(j) ==
    /\ res.records[j].id = <<"u","n","k","n","o","w","n","-">> \o NatToChars(j - 1)
    /\ (RawId(j) = Undefined \/ String(RawId(j)) # res.records[j].id)

\* C26 as stated: whenever the positional placeholder supplies a record's
\* id, the record has success false and its errors contain the
\* missing-identifier message; this holds for every identifier value a JSON
\* source can supply, 0 and false included.
C26_FallbackIdMeansFailure ==
    Imported =>
        \A j \in RecordIndexes :
            FallbackId(j) =>
                /\ ~res.records[j].meta.success
                /\ Count(res.records[j].meta.errors.list, MissingIdError(validConfig.idField)) >= 1

\* C26: a record whose identifier is the number 0 has the placeholder id,
\* success true and no error; so has one whose identifier is false
C26_FalsyIdSucceeds ==
    /\ Imported
    /\ \E j \in RecordIndexes :
          /\ RawId(j) = Num(0)
          /\ FallbackId(j)
          /\ res.records[j].meta.success
          /\ ~res.records[j].meta.errors.defined
    /\ \E j \in RecordIndexes :
          /\ RawId(j) = Bool(FALSE)
          /\ FallbackId(j)
          /\ res.records[j].meta.success

\* C26 for identifiers that are absent, null or '': there the statement
\* holds.
C26_EmptyIdMeansFailure ==
    Imported =>
        \A j \in RecordIndexes :
            (FallbackId(j) /\ IsEmpty(RawId(j))) =>
                /\ ~res.records[j].meta.success
                /\ Count(res.records[j].meta.errors.list, MissingIdError(validConfig.idField)) = 1

\* C25 vocabulary: source types outside the enumeration, and a request
\* whose configuration names one
OtherSourceTypes == {"xml", "yaml", "CSV", "Json", ""}
SourcePresent == pc # "idle" /\ ~sourceFileMissing(req)
UnsupportedTypeAnswered ==
    /\ pc = "done"
    /\ ~configMissing(req) /\ ~sourceFileMissing(req)
    /\ ~(req.config.sourceType.ty = "string" /\ req.config.sourceType.v \in {"csv", "json"})

\* C25: the source parser fails with the unsupported-source-type error for
\* every sourceType other than 'csv' and 'json' and never raises it for
\* 'csv' and 'json'; a configuration with such a sourceType aborts the
\* import and produces no records.
C25_UnsupportedSourceType ==
    /\ SourcePresent =>
          /\ \A t \in OtherSourceTypes :
                /\ parseSourceFileThrows(req.sourceFile, t)
                /\ parseSourceFileError(req.sourceFile, t) = "Unsupported source type: " \o t
          /\ \A t \in {"csv", "json"} :
                /\ parseSourceFileError(req.sourceFile, t)
                      \in {"", "SyntaxError", "TypeError: Cannot convert undefined or null to object"}
                /\ parseSourceFileThrows(req.sourceFile, t)
                      <=> parseSourceFileError(req.sourceFile, t) # ""
    /\ ParseFailureReported =>
          res.errors[1].message.subject
              \in {"SyntaxError", "TypeError: Cannot convert undefined or null to object"}
    /\ UnsupportedTypeAnswered =>
          /\ res.hasValid /\ ~res.valid
          /\ ~res.hasSummary /\ ~res.hasRecords
          /\ sourceRecords = <<>> /\ records = <<>>

C25_Witness ==
    /\ UnsupportedTypeAnswered
    /\ req.config.sourceType.v = "xml"
    /\ parseSourceFileError(req.sourceFile, req.config.sourceType.v) = "Unsupported source type: xml"
    /\ res.hasValid /\ ~res.valid
    /\ \E e \in 1..Len(res.errors) : res.errors[e].path = "sourceType"

\* C28 vocabulary: mapping k is the last mapping of record j that writes its
\* target field
LastWriter(j, k) ==
    LastOf(Writers(j, validConfig.fieldMappings[k].targetField)) = k
OnlyEmptyNumbers(j) ==
    /\ ~IsEmpty(RawId(j))
    /\ \A k \in MappingIndexes :
          \/ RawValue(j, k) \in {Undefined, Null}
          \/ RawValue(j, k) = Str(<<>>) /\ validConfig.fieldMappings[k].transform = "number"

\* C28 vocabulary: with skipEmptyFields false, for every mapping whose
\* targetField is among the targets looked at: an absent or null raw value
\* is written to data[targetField] as it is and records no error, also for
\* transform 'number'; a 'number' mapping whose raw value is '' stores 0 and
\* records no error; neither case makes the record's success false
EmptyValuesUnskipped(targets) ==
    (Imported /\ ~validConfig.options.skipEmptyFields) =>
        \A j \in RecordIndexes :
            /\ \A k \in MappingIndexes :
                  LET mapping == validConfig.fieldMappings[k]
                  IN mapping.targetField \in targets =>
                     /\ RawValue(j, k) \in {Undefined, Null} =>
                           /\ HasKey(res.records[j].data, mapping.targetField)
                           /\ LastWriter(j, k) =>
                                 Get(res.records[j].data, mapping.targetField) = RawValue(j, k)
                           /\ ~NumberFails(j, k)
                     /\ (RawValue(j, k) = Str(<<>>) /\ mapping.transform = "number") =>
                           /\ LastWriter(j, k) =>
                                 /\ HasKey(res.records[j].data, mapping.targetField)
                                 /\ Get(res.records[j].data, mapping.targetField) = Num(0)
                           /\ ~NumberFails(j, k)
                     /\ (RawValue(j, k) \in {Undefined, Null}
                         \/ (RawValue(j, k) = Str(<<>>) /\ mapping.transform = "number")) =>
                           Count(res.records[j].meta.errors.list, NotNumberError(mapping.sourceField))
                              = Cardinality({m \in MappingIndexes :
                                    /\ NumberFails(j, m)
                                    /\ validConfig.fieldMappings[m].sourceField = mapping.sourceField})
            /\ OnlyEmptyNumbers(j) =>
                  /\ res.records[j].meta.success
                  /\ ~res.records[j].meta.errors.defined

\* C28 as stated: with skipEmptyFields false, a mapping whose raw value is
\* absent or null is not passed to its transform: the raw value is written
\* to data[targetField] and no error is recorded, also for transform
\* 'number'; a 'number' mapping whose raw value is '' stores 0 and records
\* no error; neither case makes the record's success false.
C28_EmptyValuesUnskipped == EmptyValuesUnskipped(TargetFields)

\* C28: a null raw value mapped to the targetField __proto__ is not written:
\* data has no such key (the assignment removed the prototype of data)
C28_NullToProtoNotWritten ==
    /\ Imported
    /\ ~validConfig.options.skipEmptyFields
    /\ \E j \in RecordIndexes : \E k \in MappingIndexes :
          /\ RawValue(j, k) = Null
          /\ validConfig.fieldMappings[k].targetField = "__proto__"
          /\ LastWriter(j, k)
          /\ ~HasKey(res.records[j].data, "__proto__")

\* C28 for every targetField but __proto__: there the statement holds.
C28_OrdinaryEmptyValuesUnskipped == EmptyValuesUnskipped(TargetFields \ {"__proto__"})

\* a record succeeds with an absent value under 'number', stored as it is,
\* and a record succeeds with '' under 'number', stored as 0
C28_Witness ==
    /\ Imported
    /\ ~validConfig.options.skipEmptyFields
    /\ \E j \in RecordIndexes : \E k \in MappingIndexes :
          /\ RawValue(j, k) \in {Undefined, Null}
          /\ validConfig.fieldMappings[k].transform = "number"
          /\ res.records[j].meta.success
          /\ ~res.records[j].meta.errors.defined
          /\ HasKey(res.records[j].data, validConfig.fieldMappings[k].targetField)
          /\ Get(res.records[j].data, validConfig.fieldMappings[k].targetField) = RawValue(j, k)
    /\ \E j \in RecordIndexes : \E m \in MappingIndexes :
          /\ RawValue(j, m) = Str(<<>>)
          /\ validConfig.fieldMappings[m].transform = "number"
          /\ OnlyEmptyNumbers(j)
          /\ res.records[j].meta.success
          /\ Get(res.records[j].data, validConfig.fieldMappings[m].targetField) = Num(0)

\* C29 vocabulary: the values that count as empty
EmptyValues == {Str(<<>>), Null, Undefined}

\* C29 as stated: with skipEmptyFields true, no value stored in any
\* record's data is the empty string, null or absent, also for a JSON value
\* of whitespace only that is mapped with transform 'trim'.
C29_NoEmptyStoredValue ==
    (Imported /\ validConfig.options.skipEmptyFields) =>
        \A j \in RecordIndexes : \A t \in Keys(res.records[j].data) :
            Get(res.records[j].data, t) \notin EmptyValues

\* C29: a whitespace-only value mapped with 'trim' is stored as ''
C29_TrimmedToEmptyStored ==
    /\ Imported
    /\ validConfig.options.skipEmptyFields
    /\ \E j \in RecordIndexes : \E k \in MappingIndexes :
          /\ RawValue(j, k) = Str(<<" ">>)
          /\ validConfig.fieldMappings[k].transform = "trim"
          /\ HasKey(res.records[j].data, validConfig.fieldMappings[k].targetField)
          /\ Get(res.records[j].data, validConfig.fieldMappings[k].targetField) = Str(<<>>)

\* C29 for the values no 'trim' mapping wrote: there the statement holds.
C29_NoEmptyStoredUntrimmed ==
    (Imported /\ validConfig.options.skipEmptyFields) =>
        \A j \in RecordIndexes : \A t \in Keys(res.records[j].data) :
            validConfig.fieldMappings[LastOf(Writers(j, t))].transform # "trim" =>
                Get(res.records[j].data, t) \notin EmptyValues

\* C30: for CSV text with at least 2 lines after the whole text is trimmed,
\* the number of source records is the number of lines after the header,
\* blank lines included; a blank line yields a record whose every field is
\* the empty string, and the importer reports it as a failed record with a
\* missing identifier instead of skipping it.
C30_CsvBlankLinesCounted ==
    CsvAnswered =>
        LET text == trim(req.sourceFile.text)
            breaks == Cardinality({p \in 1..Len(text) : text[p] = "\n"})
            lines == split(text, "\n")
        IN breaks >= 1 =>
              /\ Len(sourceRecords) = breaks
              /\ res.hasValid /\ res.valid
              /\ res.hasRecords /\ Len(res.records) = breaks
              /\ res.summary.totalRecords = breaks
              /\ \A j \in 1..breaks :
                    trim(lines[j + 1]) = <<>> =>
                        /\ sourceRecords[j].k = "object"
                        /\ \A f \in 1..Len(sourceRecords[j].entries) :
                              sourceRecords[j].entries[f].val = Str(<<>>)
                        /\ ~res.records[j].meta.success
                        /\ Count(res.records[j].meta.errors.list,
                                 MissingIdError(validConfig.idField)) = 1
                        /\ res.records[j].meta.sourceIndex = j - 1

\* a blank line between the header and a data line, the identifier field
\* being a column: two records, the first all '' and failed for its missing
\* identifier
C30_Witness ==
    /\ CsvAnswered
    /\ Len(TextLines) = 3
    /\ TextLines[2] = <<>>
    /\ TextLines[3] # <<>>
    /\ Len(res.records) = 2
    /\ Len(sourceRecords[1].entries) = 3
    /\ \A f \in 1..3 : sourceRecords[1].entries[f].val = Str(<<>>)
    /\ ~res.records[1].meta.success
    /\ res.records[1].meta.errors.list = <<MissingIdError(validConfig.idField)>>
    /\ res.records[2].meta.success

\* The divergence of C30: the identifier field names a member of
\* Object.prototype.  The record of the blank line has every field '', line
\* 798 reads the inherited function, the test of line 799 does not fire, and
\* the record is returned as imported, its id the text of the function.
C30_InheritedIdOnBlankLine ==
    /\ CsvAnswered
    /\ validConfig.idField = "constructor"
    /\ Len(TextLines) = 3
    /\ TextLines[2] = <<>>
    /\ TextLines[3] # <<>>
    /\ Len(res.records) = 2
    /\ Len(sourceRecords[1].entries) = 3
    /\ \A f \in 1..3 : sourceRecords[1].entries[f].val = Str(<<>>)
    /\ RawId(1) = Func("Object")
    /\ res.records[1].meta.success
    /\ ~res.records[1].meta.errors.defined
    /\ res.records[1].id = Chars("function Object() { [native code] }")
    /\ res.records[2].id = res.records[1].id
    /\ res.summary.failedImports = 0

\* C30 for the identifier fields that no prototype defines: there the
\* statement holds.
C30_CsvBlankLinesCountedOwnId ==
    (CsvAnswered /\ validConfig.idField \notin ObjectPrototypeKeys) =>
        LET text == trim(req.sourceFile.text)
            breaks == Cardinality({p \in 1..Len(text) : text[p] = "\n"})
            lines == split(text, "\n")
        IN breaks >= 1 =>
              /\ Len(sourceRecords) = breaks
              /\ res.hasValid /\ res.valid
              /\ res.hasRecords /\ Len(res.records) = breaks
              /\ res.summary.totalRecords = breaks
              /\ \A j \in 1..breaks :
                    trim(lines[j + 1]) = <<>> =>
                        /\ sourceRecords[j].k = "object"
                        /\ \A f \in 1..Len(sourceRecords[j].entries) :
                              sourceRecords[j].entries[f].val = Str(<<>>)
                        /\ ~res.records[j].meta.success
                        /\ Count(res.records[j].meta.errors.list,
                                 MissingIdError(validConfig.idField)) = 1
                        /\ res.records[j].meta.sourceIndex = j - 1

\* C30 for the count alone: every line after the header is a source record
\* and a returned record, whatever the identifier field.
C30_CsvLinesCounted ==
    CsvAnswered =>
        LET text == trim(req.sourceFile.text)
            breaks == Cardinality({p \in 1..Len(text) : text[p] = "\n"})
        IN breaks >= 1 =>
              /\ Len(sourceRecords) = breaks
              /\ res.hasRecords /\ Len(res.records) = breaks
              /\ res.summary.totalRecords = breaks
====
